---- MODULE Spec2Model ----
(***************************************************************************)
(* Model of the RAG service's ingestion and retrieval pipeline:            *)
(*   - DocumentParser.chunk_text    (services/document_parser.py)          *)
(*   - EmbeddingService             (services/embedding.py)                *)
(*   - ChromaDBService              (services/chromadb_service.py)         *)
(*   - ingest_document              (routes/documents.py)                  *)
(*   - process_query                (routes/query.py)                      *)
(* and of the backend's callers of it and its session handling:            *)
(*   - RAGClient.query              (backend services/rag_client.py)       *)
(*   - execute_rag_function         (backend routes/rag_function.py)       *)
(*   - websocket_events             (backend routes/events.py)             *)
(*   - websocket_signaling          (backend routes/websocket.py)          *)
(* Each component has its own specification over the shared variables:     *)
(* SpecChunk, SpecGateway, SpecIngest, SpecQuery and the ones after them.  *)
(***************************************************************************)
EXTENDS Integers, Sequences, FiniteSets, TLC

VARIABLES
    \* ---- DocumentParser.chunk_text: arguments and locals ----
    text,                     \* the text argument (a sequence of characters)
    chunk_size,               \* the chunk_size argument (tokens)
    overlap,                  \* the overlap argument (tokens)
    sentences,                \* local: the sentence list
    chunks,                   \* local: the list of chunks built so far
    chunk_id,                 \* local: id of the next chunk
    current_chunk_sentences,  \* local
    current_chunk_tokens,     \* local
    i,                        \* local: 0-based index of the sentence being looked at
    cpc,                      \* position in chunk_text: "start", "loop", "done"
    \* ---- ChromaDBService: the fields of the process-wide instance ----
    client,                   \* self.client: "None", "http" or "memory"
    collection,               \* self.collection: "None", "http" or "memory"
    _initialized,             \* self._initialized
    _initialization_error,    \* self._initialization_error: None or a string
    store,                    \* the records held by the collection
    \* ---- history of ChromaDBService._initialize ----
    init_runs,                \* how many times _initialize has run
    init_tasks,               \* the tasks whose call ran _initialize
    last_init,                \* the last run: environment, constructor calls, error
    loop_calls,               \* the last run: its external calls on the event-loop thread
    \* ---- the coroutines calling the gateway, one per task ----
    tpc,                      \* task -> "idle", "add_thread", "query_thread"
    top,                      \* task -> the method it called last
    targs,                    \* task -> the arguments of that call
    tbatch,                   \* task -> batch_idx of add_documents' loop
    tres,                     \* task -> what the call returned or raised
    \* ---- ingest_document (routes/documents.py), one request ----
    ipc,                      \* "idle", "start", "embed_thread", "store", "done"
    ichunks,                  \* chunks, the result of chunk_text
    iembeddings,              \* all_embeddings of generate_embeddings
    iebatch,                  \* batch_idx of generate_embeddings' loop
    iecalls,                  \* history: the slices texts[start_idx:end_idx] requested
    imismatch,                \* history: some provider response had a wrong count
    ires,                     \* the HTTP response of the request
    \* ---- process_query (routes/query.py), one request ----
    qpc,                      \* "idle", "start", "embed_thread", "search", "done"
    query,                    \* request.query (a sequence of characters)
    qres,                     \* the HTTP response of the request
    \* ---- backend: one rag_knowledge function call ----
    fpc,                      \* "idle", "rag_wait", "done"
    freq,                     \* the request: channel, function_name, arguments
    fres,                     \* what the backend answered
    \* ---- backend: one run of websocket_signaling and the registries ----
    wpc,                      \* "idle", "loop", "except_...", "ended", "disconnected", "failed"
    wsession,                 \* the handler's local session: None or its id
    wstatus,                  \* session.status of each Session object
    wcreated,                 \* history: the ids of the sessions the handler created
    wreqs,                    \* history: session_request messages handled
    sessions,                 \* session_manager.sessions: the ids held
    openai_sessions,          \* openai_gateway.sessions: the ids held
    peer_connection,          \* id -> session.peer_connection: "None" or "pc"
    open_pcs,                 \* id -> RTCPeerConnections made for it and not closed
    \* ---- the embedding provider ----
    provider_calls            \* history: calls of client.embeddings.create

chunkVars == <<text, chunk_size, overlap, sentences, chunks, chunk_id,
               current_chunk_sentences, current_chunk_tokens, i, cpc>>

gatewayVars == <<client, collection, _initialized, _initialization_error, store>>

historyVars == <<init_runs, init_tasks, last_init, loop_calls>>

taskVars == <<tpc, top, targs, tbatch, tres>>

ingestVars == <<ipc, ichunks, iembeddings, iebatch, iecalls, imismatch, ires>>

queryVars == <<qpc, query, qres>>

functionVars == <<fpc, freq, fres>>

signalingVars == <<wpc, wsession, wstatus, wcreated, wreqs, sessions,
                   openai_sessions, peer_connection, open_pcs>>

backendVars == <<functionVars, signalingVars>>

vars == <<chunkVars, gatewayVars, historyVars, taskVars, ingestVars, queryVars,
          backendVars, provider_calls>>

-----------------------------------------------------------------------------
(* Bounds of the model *)

\* most pieces (word + following whitespace) a generated text is built from
MaxPieces == 3
\* largest chunk_size argument tried
MaxChunkSize == 2
\* chunk_text's loop is cut off when it has emitted this many chunks
MaxChunks == 5
\* most records one add_documents call of SpecGateway passes
MaxAddDocs == 1
\* the store accepts no further add call when it holds this many records
MaxStore == 2
\* _initialize is not run more often than this
MaxInitRuns == 2
\* how many chunk counts are tried above each batch boundary
MaxExtraChunks == 1

-----------------------------------------------------------------------------
(* Characters.  A text is a sequence of one-character strings; only the    *)
(* classes the regular expressions of document_parser.py look at matter.   *)

CHARS_PER_TOKEN == 4

IsSpace(c) == c \in {" ", "\n"}
IsTerm(c)  == c \in {".", "!", "?"}
IsUpper(c) == c \in {"A"}

\* n copies of character c
Rep(c, n) == [k \in 1..n |-> c]

\* str.strip(): drop leading and trailing whitespace
RECURSIVE LStrip(_)
LStrip(s) == IF s # <<>> /\ IsSpace(Head(s)) THEN LStrip(Tail(s)) ELSE s

RECURSIVE RStrip(_)
RStrip(s) ==
    IF s # <<>> /\ IsSpace(s[Len(s)]) THEN RStrip(SubSeq(s, 1, Len(s) - 1)) ELSE s

Strip(s) == LStrip(RStrip(s))

\* re.sub(r'\s+', ' ', s): every run of whitespace becomes one space
RECURSIVE CollapseSpaces(_)
CollapseSpaces(s) ==
    IF s = <<>> THEN <<>>
    ELSE IF IsSpace(Head(s))
         THEN <<" ">> \o CollapseSpaces(LStrip(s))
         ELSE <<Head(s)>> \o CollapseSpaces(Tail(s))

\* chunk_text, line 126
\* a normalization that trims the ends and leaves inner whitespace runs alone
NormalizeTextTrimOnly(s) == Strip(s)

NormalizeText(s) == CollapseSpaces(Strip(s))

\* DocumentParser._estimate_tokens
EstimateTokens(s) == Len(s) \div CHARS_PER_TOKEN

\* " ".join(list)
RECURSIVE JoinSentences(_)
JoinSentences(ss) ==
    IF ss = <<>> THEN <<>>
    ELSE IF Len(ss) = 1 THEN ss[1]
    ELSE ss[1] \o <<" ">> \o JoinSentences(Tail(ss))

\* sum of the per-sentence estimates of a sentence list
RECURSIVE SumTokens(_)
SumTokens(ss) ==
    IF ss = <<>> THEN 0 ELSE EstimateTokens(Head(ss)) + SumTokens(Tail(ss))

-----------------------------------------------------------------------------
(* DocumentParser._split_into_sentences.  The pattern has three            *)
(* alternatives, all anchored right after a terminator [.!?]:              *)
(*    \s+(?=[A-Z])   a whitespace run followed by an upper-case letter     *)
(*    (?=\n\n)       a double newline follows                              *)
(*    (?=\Z)         the end of the string follows                         *)
(* The pieces are stripped and the empty ones dropped.                     *)

\* index of the first non-whitespace character at or after k (Len(s)+1 if none)
RECURSIVE SkipSpaces(_, _)
SkipSpaces(s, k) ==
    IF k <= Len(s) /\ IsSpace(s[k]) THEN SkipSpaces(s, k + 1) ELSE k

\* the pattern matches right after character k of s
SplitsAfter(s, k) ==
    /\ IsTerm(s[k])
    /\ \/ k = Len(s)
       \/ /\ k + 2 <= Len(s)
          /\ s[k + 1] = "\n"
          /\ s[k + 2] = "\n"
       \/ /\ k + 1 <= Len(s)
          /\ IsSpace(s[k + 1])
          /\ SkipSpaces(s, k + 1) <= Len(s)
          /\ IsUpper(s[SkipSpaces(s, k + 1)])

\* the pieces of s[from..], cut after every k with SplitsAfter(s, k)
RECURSIVE SplitPieces(_, _, _)
SplitPieces(s, from, k) ==
    IF k > Len(s)
    THEN IF from > Len(s) THEN <<>> ELSE <<SubSeq(s, from, Len(s))>>
    ELSE IF SplitsAfter(s, k)
         THEN <<SubSeq(s, from, k)>> \o SplitPieces(s, k + 1, k + 1)
         ELSE SplitPieces(s, from, k + 1)

\* [s.strip() for s in sentences if s.strip()]
RECURSIVE StripAndFilter(_)
StripAndFilter(ps) ==
    IF ps = <<>> THEN <<>>
    ELSE IF Strip(Head(ps)) = <<>>
         THEN StripAndFilter(Tail(ps))
         ELSE <<Strip(Head(ps))>> \o StripAndFilter(Tail(ps))

SplitIntoSentences(s) == StripAndFilter(SplitPieces(s, 1, 1))

-----------------------------------------------------------------------------
(* chunk_text, lines 166-183: the overlap sentences that seed the next     *)
(* chunk.  The inner while loop walks j from the last sentence backwards.  *)

\* mutant of FitsOverlap: strict comparison, a sentence that exactly fills the
\* overlap budget is left out
FitsOverlapStrict(overlap_tokens, prev_tokens, ovl) ==
    overlap_tokens + prev_tokens < ovl

\* the j-loop's test for taking sentence prev into the overlap (line 175)
FitsOverlap(overlap_tokens, prev_tokens, ovl) ==
    overlap_tokens + prev_tokens <= ovl

RECURSIVE OverlapLoop(_, _, _, _, _)
OverlapLoop(cur, j, overlap_tokens, overlap_sentences, ovl) ==
    IF j >= 1 /\ overlap_tokens < ovl
    THEN IF FitsOverlap(overlap_tokens, EstimateTokens(cur[j]), ovl)
         THEN OverlapLoop(cur, j - 1,
                          overlap_tokens + EstimateTokens(cur[j]),
                          <<cur[j]>> \o overlap_sentences, ovl)
         ELSE [sentences |-> overlap_sentences, tokens |-> overlap_tokens]
    ELSE [sentences |-> overlap_sentences, tokens |-> overlap_tokens]

\* an overlap that never goes back further than the last sentence
OverlapSeedLastOnly(cur, ovl) ==
    IF cur # <<>> /\ 0 < ovl /\ FitsOverlap(0, EstimateTokens(cur[Len(cur)]), ovl)
    THEN [sentences |-> <<cur[Len(cur)]>>, tokens |-> EstimateTokens(cur[Len(cur)])]
    ELSE [sentences |-> <<>>, tokens |-> 0]

OverlapSeed(cur, ovl) == OverlapLoop(cur, Len(cur), 0, <<>>, ovl)

\* mutant of ExceedsBudget: the size of the sentence being added is forgotten
ExceedsBudgetIgnoringSentence(cur_tokens, sentence_tokens, size, cur) ==
    cur_tokens > size /\ cur # <<>>

\* the test of line 157: the sentence does not fit the running chunk
ExceedsBudget(cur_tokens, sentence_tokens, size, cur) ==
    cur_tokens + sentence_tokens > size /\ cur # <<>>

-----------------------------------------------------------------------------
(* ChromaDBService.  A Python value that may be None is a sequence: <<>>   *)
(* is None and <<v>> is the value v.  An exception is a record of its type *)
(* and its message; a message put together by an f-string is the sequence  *)
(* of its parts.                                                           *)

None == <<>>
Some(v) == <<v>>

\* the coroutines that call the gateway concurrently
Tasks == {1, 2}

\* Python truthiness of self._initialization_error (None or a str)
IsTruthy(e) == e # None /\ e[1] # ""

\* str(e2) of the exception the in-memory fallback raises: any string, the
\* empty one included (str(TimeoutError()) == '')
InitErrorMessages == {"", "in-memory client failed"}

\* What the environment does during one run of _initialize.  A step of the
\* run that is not reached has no outcome: its field is FALSE (msg: "").
AllInitEnvs ==
    [probe         : BOOLEAN,   \* _check_connection returns True
     http_ok       : BOOLEAN,   \* chromadb.HttpClient(...) returns
     remote_goc_ok : BOOLEAN,   \* get_or_create_collection on the remote client returns
     mem_ok        : BOOLEAN,   \* chromadb.Client() returns
     mem_goc_ok    : BOOLEAN,   \* get_or_create_collection on the in-memory client returns
     msg           : InitErrorMessages]

InitEnvs ==
    {e \in AllInitEnvs :
        /\ e.http_ok => e.probe
        /\ e.remote_goc_ok => e.http_ok
        /\ e.mem_ok => ~e.remote_goc_ok
        /\ e.mem_goc_ok => e.mem_ok
        /\ (e.remote_goc_ok \/ e.mem_goc_ok) => e.msg = ""}

NoEnv == [probe |-> FALSE, http_ok |-> FALSE, remote_goc_ok |-> FALSE,
          mem_ok |-> FALSE, mem_goc_ok |-> FALSE, msg |-> ""]

NoInit == [env |-> NoEnv, http |-> 0, goc |-> 0, raised |-> None]

\* the environments to choose from for a call made now: the environment matters
\* only to a call that runs _initialize
EnvsNow ==
    IF _initialized \/ IsTruthy(_initialization_error) THEN {NoEnv} ELSE InitEnvs

RuntimeError(cached) ==
    [type |-> "RuntimeError", msg |-> <<"ChromaDB initialization failed: ", cached>>]

\* the gateway as it is, nothing raised
GatewayAsIs ==
    [client |-> client, collection |-> collection, initialized |-> _initialized,
     error |-> _initialization_error, raised |-> None,
     ran |-> FALSE, http |-> 0, goc |-> 0]

\* mutant of Initialize: no in-memory fallback, a failure of the remote attempt
\* is cached and raised
InitializeNoFallback(env) ==
    LET httpBuilt == env.probe /\ env.http_ok
        remoteOk  == httpBuilt /\ env.remote_goc_ok
    IN  [client      |-> IF httpBuilt THEN "http" ELSE client,
         collection  |-> IF remoteOk THEN "http" ELSE collection,
         initialized |-> IF remoteOk THEN TRUE ELSE _initialized,
         error       |-> IF remoteOk THEN _initialization_error ELSE Some(env.msg),
         raised      |-> IF remoteOk THEN None
                         ELSE Some([type |-> "Exception", msg |-> <<env.msg>>]),
         ran         |-> TRUE,
         http        |-> IF httpBuilt THEN 1 ELSE 0,
         goc         |-> IF httpBuilt THEN 1 ELSE 0]

\* ChromaDBService._initialize (lines 42-79): the fields after the run, the
\* exception it raised (None if it returned) and the constructor calls it made
Initialize(env) ==
    LET httpBuilt == env.probe /\ env.http_ok
        remoteOk  == httpBuilt /\ env.remote_goc_ok
        memBuilt  == ~remoteOk /\ env.mem_ok
        memOk     == memBuilt /\ env.mem_goc_ok
    IN  [client      |-> IF memBuilt THEN "memory"
                         ELSE IF httpBuilt THEN "http" ELSE client,
         collection  |-> IF remoteOk THEN "http"
                         ELSE IF memOk THEN "memory" ELSE collection,
         initialized |-> IF remoteOk \/ memOk THEN TRUE ELSE _initialized,
         error       |-> IF remoteOk \/ memOk THEN _initialization_error
                         ELSE Some(env.msg),
         raised      |-> IF remoteOk \/ memOk THEN None
                         ELSE Some([type |-> "Exception", msg |-> <<env.msg>>]),
         ran         |-> TRUE,
         http        |-> IF httpBuilt THEN 1 ELSE 0,
         goc         |-> (IF httpBuilt THEN 1 ELSE 0) + (IF memBuilt THEN 1 ELSE 0)]

\* mutant of EnsureInitialized: the cached error is not looked at
EnsureInitializedNoCache(env) ==
    IF _initialized THEN GatewayAsIs ELSE Initialize(env)

\* ChromaDBService._ensure_initialized (lines 20-28)
EnsureInitialized(env) ==
    IF _initialized THEN GatewayAsIs
    ELSE IF IsTruthy(_initialization_error)
         THEN [GatewayAsIs EXCEPT !.raised = Some(RuntimeError(_initialization_error[1]))]
         ELSE Initialize(env)

\* the effect of task t's call of _ensure_initialized with outcome r on the
\* instance and on the history
ApplyEnsure(t, r, env) ==
    /\ client' = r.client
    /\ collection' = r.collection
    /\ _initialized' = r.initialized
    /\ _initialization_error' = r.error
    /\ init_runs' = IF r.ran THEN init_runs + 1 ELSE init_runs
    /\ init_tasks' = IF r.ran THEN init_tasks \cup {t} ELSE init_tasks
    /\ last_init' = IF r.ran
                    THEN [env |-> env, http |-> r.http, goc |-> r.goc,
                          raised |-> r.raised]
                    ELSE last_init

\* the external calls of _ensure_initialized: it is called as a plain function
\* by the coroutine of operation op (lines 121, 180, 85), so the calls of a run
\* of _initialize are made on the thread of the event loop
LoopCalls(op, r, env) ==
    IF ~r.ran THEN {}
    ELSE {[op |-> op, call |-> "_check_connection"]}
         \cup (IF env.probe
               THEN {[op |-> op, call |-> "chromadb.HttpClient"]} ELSE {})
         \cup (IF r.goc >= 1
               THEN {[op |-> op, call |-> "get_or_create_collection"]} ELSE {})
         \cup (IF ~(env.probe /\ env.http_ok /\ env.remote_goc_ok)
               THEN {[op |-> op, call |-> "chromadb.Client"]} ELSE {})

\* _initialize is cut off after MaxInitRuns runs
WithinInitRuns(r) == r.ran => init_runs < MaxInitRuns

\* ChromaDBService.is_available (lines 81-88), evaluated on the fields after
\* the call of _ensure_initialized
IsAvailableResult(r) ==
    r.initialized /\ r.client # "None" /\ r.collection # "None"

\* ChromaDBService.get_status (lines 90-96)
GetStatus ==
    IF IsTruthy(_initialization_error) THEN "error"
    ELSE IF _initialized THEN "initialized"
    ELSE "uninitialized"

-----------------------------------------------------------------------------
(* add_documents: sub-batching (lines 123-138) *)

BATCH_SIZE == 1000

Min(a, b) == IF a < b THEN a ELSE b

\* Python's seq[start:end] for 0 <= start <= end <= len(seq)
Slice(seq, start, end) == SubSeq(seq, start + 1, end)

\* line 129
NumBatches(total_docs, batch_size) == (total_docs + batch_size - 1) \div batch_size

\* an add_documents that takes the embeddings of every batch from the start
\* of the list
AddBatchEmbeddingsFromStart(args, batch_idx) ==
    LET total_docs == Len(args.documents)
        start_idx  == batch_idx * BATCH_SIZE
        end_idx    == Min(start_idx + BATCH_SIZE, total_docs)
    IN  [documents  |-> Slice(args.documents, start_idx, end_idx),
         embeddings |-> Slice(args.embeddings, 0, end_idx - start_idx),
         metadatas  |-> Slice(args.metadatas, start_idx, end_idx),
         ids        |-> Slice(args.ids, start_idx, end_idx)]

\* lines 132-138: the four slices of batch batch_idx
AddBatch(args, batch_idx) ==
    LET total_docs == Len(args.documents)
        start_idx  == batch_idx * BATCH_SIZE
        end_idx    == Min(start_idx + BATCH_SIZE, total_docs)
    IN  [documents  |-> Slice(args.documents, start_idx, end_idx),
         embeddings |-> Slice(args.embeddings, start_idx, end_idx),
         metadatas  |-> Slice(args.metadatas, start_idx, end_idx),
         ids        |-> Slice(args.ids, start_idx, end_idx)]

\* collection.add (lines 106-111): the store pairs the k-th id, embedding,
\* document and metadata of the call into one record
StoredRecords(b) ==
    [k \in 1..Len(b.ids) |->
        [id |-> b.ids[k], embedding |-> b.embeddings[k],
         document |-> b.documents[k], metadata |-> b.metadatas[k]]]

\* the ids of the records the collection holds
HeldIds(s) == {s[k].id : k \in 1..Len(s)}

\* collection.add (line 106) for ids the collection may hold already: add
\* never replaces a record; the records of the call whose id is held are left
\* out (the call can also raise, see AddBatchFailed)
NewRecords(s, b) == SelectSeq(StoredRecords(b), LAMBDA r : r.id \notin HeldIds(s))

Returned(v) == [kind |-> "return", value |-> v]
Raised(e)   == [kind |-> "raise", value |-> e]
NoResult    == [kind |-> "none", value |-> None]

\* what collection.add and collection.query raise: chromadb raises ValueError
\* for a rejected argument and other exceptions otherwise
StoreErrors ==
    {[type |-> "Exception", msg |-> <<"store operation failed">>],
     [type |-> "ValueError", msg |-> <<"store rejected the call">>]}

GatewayInit ==
    /\ client = "None"
    /\ collection = "None"
    /\ _initialized = FALSE
    /\ _initialization_error = None
    /\ store = <<>>
    /\ init_runs = 0
    /\ init_tasks = {}
    /\ last_init = NoInit
    /\ loop_calls = {}

NoArgs == [documents |-> <<>>, embeddings |-> <<>>, metadatas |-> <<>>, ids |-> <<>>]

TaskInit ==
    /\ tpc = [t \in Tasks |-> "idle"]
    /\ top = [t \in Tasks |-> "none"]
    /\ targs = [t \in Tasks |-> NoArgs]
    /\ tbatch = [t \in Tasks |-> 0]
    /\ tres = [t \in Tasks |-> NoResult]

\* add_documents, lines 120-151 up to the first await: _ensure_initialized and
\* the dispatch of the first batch to the thread pool
AddCall(t, args, env) ==
    LET r == EnsureInitialized(env) IN
    /\ tpc[t] = "idle"
    /\ WithinInitRuns(r)
    /\ ApplyEnsure(t, r, env)
    /\ loop_calls' = IF r.ran THEN LoopCalls("add", r, env) ELSE loop_calls
    /\ top' = [top EXCEPT ![t] = "add"]
    /\ tbatch' = [tbatch EXCEPT ![t] = 0]
    /\ IF r.raised # None
       THEN /\ tpc' = [tpc EXCEPT ![t] = "idle"]
            /\ targs' = [targs EXCEPT ![t] = NoArgs]
            /\ tres' = [tres EXCEPT ![t] = Raised(r.raised[1])]
       ELSE IF NumBatches(Len(args.documents), BATCH_SIZE) = 0
       THEN /\ tpc' = [tpc EXCEPT ![t] = "idle"]
            /\ targs' = [targs EXCEPT ![t] = NoArgs]
            /\ tres' = [tres EXCEPT ![t] = Returned(None)]
       ELSE /\ tpc' = [tpc EXCEPT ![t] = "add_thread"]
            /\ targs' = [targs EXCEPT ![t] = args]
            /\ tres' = [tres EXCEPT ![t] = NoResult]
    /\ UNCHANGED store

\* an add_documents that dispatches the next batch without awaiting the one
\* in flight
AddBatchStoredPipelined(t) ==
    /\ tpc[t] = "add_thread"
    /\ IF tbatch[t] + 1 < NumBatches(Len(targs[t].documents), BATCH_SIZE)
       THEN /\ tbatch' = [tbatch EXCEPT ![t] = tbatch[t] + 1]
            /\ UNCHANGED <<tpc, targs, tres, store>>
       ELSE /\ tpc' = [tpc EXCEPT ![t] = "idle"]
            /\ targs' = [targs EXCEPT ![t] = NoArgs]
            /\ tres' = [tres EXCEPT ![t] = Returned(None)]
            /\ store' = store \o StoredRecords(AddBatch(targs[t], tbatch[t]))
            /\ UNCHANGED tbatch
    /\ UNCHANGED <<client, collection, _initialized, _initialization_error,
                   historyVars, top>>

\* add_documents, lines 145-158: the awaited batch has been stored; the loop
\* dispatches the next batch or the call returns
AddBatchStored(t) ==
    /\ tpc[t] = "add_thread"
    /\ store' = store \o NewRecords(store, AddBatch(targs[t], tbatch[t]))
    /\ IF tbatch[t] + 1 < NumBatches(Len(targs[t].documents), BATCH_SIZE)
       THEN /\ tbatch' = [tbatch EXCEPT ![t] = tbatch[t] + 1]
            /\ UNCHANGED <<tpc, targs, tres>>
       ELSE /\ tpc' = [tpc EXCEPT ![t] = "idle"]
            /\ targs' = [targs EXCEPT ![t] = NoArgs]
            /\ tres' = [tres EXCEPT ![t] = Returned(None)]
            /\ UNCHANGED tbatch
    /\ UNCHANGED <<client, collection, _initialized, _initialization_error,
                   historyVars, top>>

\* a store add that undoes the request's earlier batches when a batch fails
AddBatchFailedRollback(t) ==
    /\ tpc[t] = "add_thread"
    /\ tpc' = [tpc EXCEPT ![t] = "idle"]
    /\ \E e \in StoreErrors : tres' = [tres EXCEPT ![t] = Raised(e)]
    /\ targs' = [targs EXCEPT ![t] = NoArgs]
    /\ store' = <<>>
    /\ UNCHANGED <<client, collection, _initialized, _initialization_error,
                   historyVars, top, tbatch>>

\* a store add whose failure drops the connection and caches the error
AddBatchFailedTearDown(t) ==
    /\ tpc[t] = "add_thread"
    /\ tpc' = [tpc EXCEPT ![t] = "idle"]
    /\ \E e \in StoreErrors :
         /\ tres' = [tres EXCEPT ![t] = Raised(e)]
         /\ _initialization_error' = Some(e.msg[1])
    /\ targs' = [targs EXCEPT ![t] = NoArgs]
    /\ client' = "None"
    /\ collection' = "None"
    /\ _initialized' = FALSE
    /\ UNCHANGED <<store, historyVars, top, tbatch>>

\* add_documents, lines 145-161: the awaited batch raised; the exception is
\* logged and re-raised, no further batch is dispatched
AddBatchFailed(t) ==
    /\ tpc[t] = "add_thread"
    /\ tpc' = [tpc EXCEPT ![t] = "idle"]
    /\ \E e \in StoreErrors : tres' = [tres EXCEPT ![t] = Raised(e)]
    /\ targs' = [targs EXCEPT ![t] = NoArgs]
    /\ UNCHANGED <<gatewayVars, historyVars, top, tbatch>>

\* query, lines 179-187 up to the await
QueryCall(t, n_results, env) ==
    LET r == EnsureInitialized(env) IN
    /\ tpc[t] = "idle"
    /\ WithinInitRuns(r)
    /\ ApplyEnsure(t, r, env)
    /\ loop_calls' = IF r.ran THEN LoopCalls("query", r, env) ELSE loop_calls
    /\ top' = [top EXCEPT ![t] = "query"]
    /\ tbatch' = [tbatch EXCEPT ![t] = 0]
    /\ IF r.raised # None
       THEN /\ tpc' = [tpc EXCEPT ![t] = "idle"]
            /\ targs' = [targs EXCEPT ![t] = NoArgs]
            /\ tres' = [tres EXCEPT ![t] = Raised(r.raised[1])]
       ELSE /\ tpc' = [tpc EXCEPT ![t] = "query_thread"]
            /\ targs' = [targs EXCEPT ![t] = [NoArgs EXCEPT !.ids = <<n_results>>]]
            /\ tres' = [tres EXCEPT ![t] = NoResult]
    /\ UNCHANGED store

\* query, lines 183-190: collection.query returned the nearest records, at
\* most n_results of them (the ranking is the store's own)
QueryReturned(t) ==
    /\ tpc[t] = "query_thread"
    /\ tpc' = [tpc EXCEPT ![t] = "idle"]
    /\ tres' = [tres EXCEPT ![t] =
                  Returned(SubSeq(store, 1, Min(targs[t].ids[1], Len(store))))]
    /\ targs' = [targs EXCEPT ![t] = NoArgs]
    /\ UNCHANGED <<gatewayVars, historyVars, top, tbatch>>

\* query, lines 191-193: collection.query raised
QueryFailed(t) ==
    /\ tpc[t] = "query_thread"
    /\ tpc' = [tpc EXCEPT ![t] = "idle"]
    /\ \E e \in StoreErrors : tres' = [tres EXCEPT ![t] = Raised(e)]
    /\ targs' = [targs EXCEPT ![t] = NoArgs]
    /\ UNCHANGED <<gatewayVars, historyVars, top, tbatch>>

\* is_available (lines 81-88)
IsAvailableCall(t, env) ==
    LET r == IF ~_initialized THEN EnsureInitialized(env) ELSE GatewayAsIs IN
    /\ tpc[t] = "idle"
    /\ WithinInitRuns(r)
    /\ ApplyEnsure(t, r, env)
    /\ loop_calls' = IF r.ran THEN LoopCalls("is_available", r, env) ELSE loop_calls
    /\ top' = [top EXCEPT ![t] = "is_available"]
    /\ tpc' = [tpc EXCEPT ![t] = "idle"]
    /\ tres' = [tres EXCEPT ![t] =
                  Returned(IF r.raised # None THEN FALSE ELSE IsAvailableResult(r))]
    /\ UNCHANGED <<store, targs, tbatch>>

\* a get_status that connects first, as is_available does
GetStatusCallInitializing(t) ==
    \E env \in EnvsNow :
        LET r == EnsureInitialized(env) IN
        /\ tpc[t] = "idle"
        /\ WithinInitRuns(r)
        /\ ApplyEnsure(t, r, env)
        /\ loop_calls' = IF r.ran THEN LoopCalls("get_status", r, env) ELSE loop_calls
        /\ top' = [top EXCEPT ![t] = "get_status"]
        /\ tpc' = [tpc EXCEPT ![t] = "idle"]
        /\ tres' = [tres EXCEPT ![t] =
                      Returned(IF r.initialized THEN "initialized" ELSE "error")]
        /\ UNCHANGED <<store, targs, tbatch>>

\* get_status (lines 90-96)
GetStatusCall(t) ==
    /\ tpc[t] = "idle"
    /\ top' = [top EXCEPT ![t] = "get_status"]
    /\ tpc' = [tpc EXCEPT ![t] = "idle"]
    /\ tres' = [tres EXCEPT ![t] = Returned(GetStatus)]
    /\ UNCHANGED <<gatewayVars, historyVars, targs, tbatch>>

-----------------------------------------------------------------------------
(* SpecGateway: NumTasks coroutines on one event loop call the gateway.    *)
(* The synchronous part of a call runs without interleaving; the awaited   *)
(* thread-pool operations interleave.                                      *)

\* what a step of the gateway leaves alone
routeVars == <<chunkVars, ingestVars, queryVars, backendVars, provider_calls>>

NoResponse == [status |-> 0, detail |-> <<>>, body |-> None]

IngestIdle ==
    /\ ipc = "idle"
    /\ ichunks = <<>>
    /\ iembeddings = <<>>
    /\ iebatch = 0
    /\ iecalls = <<>>
    /\ imismatch = FALSE
    /\ ires = NoResponse
    /\ provider_calls = 0

QueryIdle ==
    /\ qpc = "idle"
    /\ query = <<>>
    /\ qres = NoResponse

\* the session ids of the model
SessionIds == {"s1", "s2"}

\* the backend before any request: no function call, no signaling
\* connection, empty registries (session_manager.py line 9,
\* openai_gateway.py line 17)
BackendIdle ==
    /\ fpc = "idle"
    /\ freq = None
    /\ fres = None
    /\ wpc = "idle"
    /\ wsession = None
    /\ wstatus = [s \in SessionIds |-> "idle"]
    /\ wcreated = {}
    /\ wreqs = 0
    /\ sessions = {}
    /\ openai_sessions = {}
    /\ peer_connection = [s \in SessionIds |-> "None"]
    /\ open_pcs = [s \in SessionIds |-> 0]

\* the records task t passes in a call with n documents
CallerArgs(t, n) ==
    [documents  |-> [k \in 1..n |-> <<"doc", t, k>>],
     embeddings |-> [k \in 1..n |-> <<"emb", t, k>>],
     metadatas  |-> [k \in 1..n |-> <<"meta", t, k>>],
     ids        |-> [k \in 1..n |-> <<"id", t, k>>]]

N_RESULTS == 5

GwAdd ==
    \E t \in Tasks, n \in 0..MaxAddDocs, env \in EnvsNow :
        /\ Len(store) + n <= MaxStore
        /\ AddCall(t, CallerArgs(t, n), env)
        /\ UNCHANGED <<chunkVars, ingestVars, queryVars, backendVars, provider_calls>>

GwAddBatchStored == \E t \in Tasks : AddBatchStored(t) /\ UNCHANGED routeVars

GwAddBatchFailed == \E t \in Tasks : AddBatchFailed(t) /\ UNCHANGED routeVars

GwQuery ==
    \E t \in Tasks, env \in EnvsNow :
        QueryCall(t, N_RESULTS, env) /\ UNCHANGED routeVars

GwQueryReturned == \E t \in Tasks : QueryReturned(t) /\ UNCHANGED routeVars

GwQueryFailed == \E t \in Tasks : QueryFailed(t) /\ UNCHANGED routeVars

GwIsAvailable ==
    \E t \in Tasks, env \in EnvsNow : IsAvailableCall(t, env) /\ UNCHANGED routeVars

GwGetStatus == \E t \in Tasks : GetStatusCall(t) /\ UNCHANGED routeVars

ChunkIdle ==
    /\ text = <<>>
    /\ chunk_size = 1
    /\ overlap = 0
    /\ sentences = <<>>
    /\ chunks = <<>>
    /\ chunk_id = 0
    /\ current_chunk_sentences = <<>>
    /\ current_chunk_tokens = 0
    /\ i = 0
    /\ cpc = "done"

GatewaySpecInit == ChunkIdle /\ GatewayInit /\ TaskInit /\ IngestIdle /\ QueryIdle /\ BackendIdle

GatewayNext ==
    \/ GwAdd
    \/ GwAddBatchStored
    \/ GwAddBatchFailed
    \/ GwQuery
    \/ GwQueryReturned
    \/ GwQueryFailed
    \/ GwIsAvailable
    \/ GwGetStatus

SpecGateway == GatewaySpecInit /\ [][GatewayNext]_vars

-----------------------------------------------------------------------------
(* EmbeddingService (services/embedding.py) *)

MAX_BATCH_SIZE == 2048

\* the vector the provider computes for a text
Vec(x) == <<"vec", x>>

\* a vector that belongs to none of the texts
ExtraVec == <<"vec", "extra">>

\* what the provider may answer to a batch: one vector per text in order, one
\* vector too few, or one too many
ProviderOutcomes == {"ok", "short", "long"}

\* _generate_embeddings_batch_sync (lines 28-34): the list built from the
\* provider's response
ProviderResponse(batch_texts, outcome) ==
    LET right == [k \in 1..Len(batch_texts) |-> Vec(batch_texts[k])]
    IN  IF outcome = "ok" THEN right
        ELSE IF outcome = "short" THEN SubSeq(right, 1, Len(right) - 1)
        ELSE Append(right, ExtraVec)

ProviderError == [type |-> "Exception", msg |-> <<"embedding request failed">>]

\* a generate_embeddings that sends all texts in one request
EmbedBatchSizeWhole(total_texts) == total_texts

\* generate_embeddings, line 57
EmbedBatchSize(total_texts) == Min(MAX_BATCH_SIZE, total_texts)

\* generate_embeddings, line 58 (total_texts >= 1)
EmbedNumBatches(total_texts) ==
    (total_texts + EmbedBatchSize(total_texts) - 1) \div EmbedBatchSize(total_texts)

\* generate_embeddings, lines 61-62
EmbedBatchRange(total_texts, batch_idx) ==
    LET start_idx == batch_idx * EmbedBatchSize(total_texts)
        end_idx   == Min(start_idx + EmbedBatchSize(total_texts), total_texts)
    IN  [start_idx |-> start_idx, end_idx |-> end_idx]

\* generate_embeddings, line 63
EmbedBatchTexts(texts, batch_idx) ==
    Slice(texts, EmbedBatchRange(Len(texts), batch_idx).start_idx,
                 EmbedBatchRange(Len(texts), batch_idx).end_idx)

-----------------------------------------------------------------------------
(* ingest_document (routes/documents.py) *)

\* the task that runs the request's gateway call
IngestTask == 1

\* an HTTP error response raised as HTTPException(status_code, detail)
HttpError(status, detail) == [status |-> status, detail |-> detail, body |-> None]

\* the success response
HttpOk(body) == [status |-> 200, detail |-> <<>>, body |-> Some(body)]

\* lines 125-137: the handler's except clauses, for an exception that is not
\* an HTTPException
IngestErrorResponse(e) ==
    IF e.type = "ValueError"
    THEN HttpError(400, e.msg)
    ELSE HttpError(500, <<"Error ingesting document: ">> \o e.msg)

\* the chunk list chunk_text returned: n chunks with the ids 0..n-1
ChunkList(n) == [k \in 1..n |-> [text |-> <<"chunk", k>>, id |-> k - 1]]

\* line 71
ChunkTexts(cs) == [k \in 1..Len(cs) |-> cs[k].text]

\* uuid.uuid4().hex[:8] (line 97) for the chunk at position k, when it differs
\* from the suffix of every id the store holds
FreshUuid(k) == Len(store) + k

\* the suffixes of the held ids of this file and chunk id: the values of
\* uuid.uuid4().hex[:8] that make the new id equal to a held one
HeldUuids(c) ==
    {store[j].id[3] : j \in {i_ \in 1..Len(store) :
                                /\ store[i_].id[1] = "file.txt"
                                /\ store[i_].id[2] = c.id}}

\* the values uuid.uuid4().hex[:8] can take for the chunks cs, one per chunk:
\* a value no held id has, or the value of a held id of the same file and
\* chunk id
UuidDraws(cs) ==
    IF store = <<>>
    THEN {[k \in 1..Len(cs) |-> FreshUuid(k)]}
    ELSE {u \in [1..Len(cs) -> 1..(Len(store) + Len(cs))] :
             \A k \in 1..Len(cs) : u[k] = FreshUuid(k) \/ u[k] \in HeldUuids(cs[k])}

\* lines 87-105: the arguments of add_documents; uuids[k] is the random suffix
\* of the k-th id (line 97)
IngestArgs(cs, embeddings, uuids) ==
    [documents  |-> ChunkTexts(cs),
     embeddings |-> embeddings,
     metadatas  |-> [k \in 1..Len(cs) |->
                       [source |-> "file.txt", chunk_id |-> cs[k].id,
                        chunk_index |-> k - 1]],
     ids        |-> [k \in 1..Len(cs) |-> <<"file.txt", cs[k].id, uuids[k]>>]]

\* how the upload fares before the chunks exist (lines 29-66); "no_chunks" is
\* a chunk_text that returns the empty list
UploadOutcomes ==
    {"too_large", "unsupported", "parse_error", "empty_text", "no_chunks", "ok"}

\* the chunk counts tried: few chunks, one more than a store batch holds, one
\* more than an embedding batch holds
IngestChunkCounts ==
    UNION {{base + k : k \in 1..MaxExtraChunks} : base \in {0, BATCH_SIZE, MAX_BATCH_SIZE}}

IngestInit ==
    /\ ipc = "start"
    /\ ichunks = <<>>
    /\ iembeddings = <<>>
    /\ iebatch = 0
    /\ iecalls = <<>>
    /\ imismatch = FALSE
    /\ ires = NoResponse
    /\ provider_calls = 0

\* a handler without the except ValueError clause of lines 128-130: the
\* parser's ValueError is answered like any other exception
IngestCallValueErrorAsServerError(outcome, n) ==
    /\ ipc = "start"
    /\ IF outcome = "ok"
       THEN /\ ichunks' = ChunkList(n)
            /\ ipc' = "embed_thread"
            /\ provider_calls' = provider_calls + 1
            /\ iecalls' = <<EmbedBatchRange(n, 0)>>
            /\ UNCHANGED ires
       ELSE /\ ires' = CASE outcome = "too_large" ->
                              HttpError(400, <<"File size exceeds maximum allowed size">>)
                         [] outcome = "unsupported" ->
                              HttpError(500, <<"Error ingesting document: ",
                                               "Unsupported file type: ">>)
                         [] outcome = "parse_error" ->
                              IngestErrorResponse([type |-> "Exception",
                                                   msg |-> <<"parse failed">>])
                         [] outcome = "empty_text" ->
                              HttpError(400, <<"Document is empty or could not be parsed">>)
                         [] outcome = "no_chunks" ->
                              HttpError(400, <<"No chunks created from document">>)
            /\ ipc' = "done"
            /\ UNCHANGED <<ichunks, provider_calls, iecalls>>
    /\ UNCHANGED <<iembeddings, iebatch, imismatch>>
    /\ UNCHANGED <<chunkVars, gatewayVars, historyVars, taskVars, queryVars, backendVars>>

\* lines 29-72 up to the first await of a thread, for an upload that fares as
\* outcome says and, if it gets that far, is cut into n chunks: read, size
\* check (36-40), parse (48), empty check (50-51), chunk (60), zero-chunk
\* check (62-63), and the dispatch of the first embedding batch (72); the
\* exceptions leave through the except clauses of lines 125-137
IngestCallWith(outcome, n) ==
    /\ ipc = "start"
    /\ IF outcome = "ok"
       THEN /\ ichunks' = ChunkList(n)
            /\ ipc' = "embed_thread"
            /\ provider_calls' = provider_calls + 1
            /\ iecalls' = <<EmbedBatchRange(n, 0)>>
            /\ UNCHANGED ires
       ELSE /\ ires' = CASE outcome = "too_large" ->
                              HttpError(400, <<"File size exceeds maximum allowed size">>)
                         [] outcome = "unsupported" ->
                              IngestErrorResponse([type |-> "ValueError",
                                                   msg |-> <<"Unsupported file type: ">>])
                         [] outcome = "parse_error" ->
                              IngestErrorResponse([type |-> "Exception",
                                                   msg |-> <<"parse failed">>])
                         [] outcome = "empty_text" ->
                              HttpError(400, <<"Document is empty or could not be parsed">>)
                         [] outcome = "no_chunks" ->
                              HttpError(400, <<"No chunks created from document">>)
            /\ ipc' = "done"
            /\ UNCHANGED <<ichunks, provider_calls, iecalls>>
    /\ UNCHANGED <<iembeddings, iebatch, imismatch>>
    /\ UNCHANGED <<chunkVars, gatewayVars, historyVars, taskVars, queryVars, backendVars>>

\* ingest_document up to its first await of a thread, for any upload
IngestCall ==
    \E outcome \in UploadOutcomes, n \in IngestChunkCounts :
        IngestCallWith(outcome, n)

\* a handler that stores whatever generate_embeddings returned, without the
\* comparison of lines 74-78
IngestAfterEmbeddingsUnchecked(embeddings, env) ==
    /\ \E uuids \in UuidDraws(ichunks) :
         AddCall(IngestTask, IngestArgs(ichunks, embeddings, uuids), env)
    /\ ipc' = "store"
    /\ UNCHANGED ires

\* the route's check of lines 74-78, then lines 83-105: the arguments are put
\* together and add_documents is called
IngestAfterEmbeddings(embeddings, env) ==
    IF Len(embeddings) # Len(ChunkTexts(ichunks))
    THEN /\ ires' = HttpError(500, <<"Embedding count mismatch">>)
         /\ ipc' = "done"
         /\ UNCHANGED <<gatewayVars, historyVars, taskVars>>
    ELSE /\ \E uuids \in UuidDraws(ichunks) :
              AddCall(IngestTask, IngestArgs(ichunks, embeddings, uuids), env)
         /\ ipc' = "store"
         /\ UNCHANGED ires

\* generate_embeddings, lines 69-80: the awaited batch returned; the loop
\* dispatches the next batch, or generate_embeddings returns all_embeddings
\* and the handler goes on
IngestEmbedReturned ==
    /\ ipc = "embed_thread"
    /\ \E outcome \in ProviderOutcomes, env \in EnvsNow :
        LET batch_texts == EmbedBatchTexts(ChunkTexts(ichunks), iebatch)
            batch_embeddings == ProviderResponse(batch_texts, outcome)
            all_embeddings == iembeddings \o batch_embeddings
        IN  /\ iembeddings' = all_embeddings
            /\ imismatch' = (imismatch \/ Len(batch_embeddings) # Len(batch_texts))
            /\ IF iebatch + 1 < EmbedNumBatches(Len(ichunks))
               THEN /\ iebatch' = iebatch + 1
                    /\ provider_calls' = provider_calls + 1
                    /\ iecalls' = Append(iecalls,
                                         EmbedBatchRange(Len(ichunks), iebatch + 1))
                    /\ UNCHANGED <<ipc, ires, gatewayVars, historyVars, taskVars>>
               ELSE /\ IngestAfterEmbeddings(all_embeddings, env)
                    /\ UNCHANGED <<iebatch, provider_calls, iecalls>>
    /\ UNCHANGED <<ichunks, chunkVars, queryVars, backendVars>>

\* a generate_embeddings that asks the provider again when a sub-batch failed
IngestEmbedFailedRetry ==
    /\ ipc = "embed_thread"
    /\ provider_calls <= EmbedNumBatches(Len(ichunks))
    /\ provider_calls' = provider_calls + 1
    /\ UNCHANGED <<ipc, ires, ichunks, iembeddings, iebatch, iecalls, imismatch>>
    /\ UNCHANGED <<chunkVars, gatewayVars, historyVars, taskVars, queryVars, backendVars>>

\* generate_embeddings, lines 82-84, and the handler's lines 131-137: the
\* awaited batch raised
IngestEmbedFailed ==
    /\ ipc = "embed_thread"
    /\ ires' = IngestErrorResponse(ProviderError)
    /\ ipc' = "done"
    /\ UNCHANGED <<ichunks, iembeddings, iebatch, iecalls, imismatch, provider_calls>>
    /\ UNCHANGED <<chunkVars, gatewayVars, historyVars, taskVars, queryVars, backendVars>>

\* add_documents goes on in the request's task
IngestBatchStored ==
    /\ ipc = "store"
    /\ AddBatchStored(IngestTask)
    /\ UNCHANGED routeVars

IngestBatchFailed ==
    /\ ipc = "store"
    /\ AddBatchFailed(IngestTask)
    /\ UNCHANGED routeVars

\* lines 107-137: add_documents returned or raised, the response is built
IngestRespond ==
    /\ ipc = "store"
    /\ tpc[IngestTask] = "idle"
    /\ ires' = IF tres[IngestTask].kind = "raise"
               THEN IngestErrorResponse(tres[IngestTask].value)
               ELSE HttpOk([status |-> "success", chunks |-> Len(ichunks)])
    /\ ipc' = "done"
    /\ UNCHANGED <<ichunks, iembeddings, iebatch, iecalls, imismatch, provider_calls>>
    /\ UNCHANGED <<chunkVars, gatewayVars, historyVars, taskVars, queryVars, backendVars>>

IngestSpecInit == ChunkIdle /\ GatewayInit /\ TaskInit /\ IngestInit /\ QueryIdle /\ BackendIdle

IngestNext ==
    \/ IngestCall
    \/ IngestEmbedReturned
    \/ IngestEmbedFailed
    \/ IngestBatchStored
    \/ IngestBatchFailed
    \/ IngestRespond

SpecIngest == IngestSpecInit /\ [][IngestNext]_vars

-----------------------------------------------------------------------------
(* process_query (routes/query.py) *)

\* the task that runs the request's gateway call
QueryTask == 2

\* the request bodies tried: empty, whitespace only, and with content
Queries ==
    {<<>>, <<" ">>, <<"\n", " ">>, <<" ", "h", "i", " ">>}

\* lines 59-61: the handler's only except clause; str(e) is kept as the parts
\* of the exception
QueryErrorResponse(e) ==
    HttpError(500, <<"Error processing query: ">> \o e.msg)

\* line 19, as the except clause of lines 59-61 receives it
EmptyQueryError ==
    [type |-> "HTTPException", msg |-> <<400, "Query cannot be empty">>]

\* line 47: source_info.get('source', 'unknown')
SourceOf(m) == IF "source" \in DOMAIN m THEN m.source ELSE "unknown"

\* lines 44-49: the blocks of the context, joined by a blank line
ContextParts(documents, metadatas) ==
    [k \in 1..Len(documents) |->
        [header |-> <<"[Document ", k, " - Source: ",
                      IF k <= Len(metadatas) THEN SourceOf(metadatas[k]) ELSE "unknown",
                      "]">>,
         newline |-> "\n",
         doc |-> documents[k]]]

\* an assembly that reports an empty match list as an error
QueryResponseEmptyIsError(results) ==
    LET documents == [k \in 1..Len(results) |-> results[k].document]
        metadatas == [k \in 1..Len(results) |-> results[k].metadata]
    IN  IF documents = <<>>
        THEN HttpError(404, <<"No documents found">>)
        ELSE HttpOk([context |-> ContextParts(documents, metadatas),
                     separator |-> "\n\n",
                     sources |-> metadatas,
                     message |-> <<"Retrieved ", Len(documents), " relevant documents">>])

\* an assembly that keeps only the best match
QueryResponseBestOnly(results) ==
    LET documents == [k \in 1..Min(1, Len(results)) |-> results[k].document]
        metadatas == [k \in 1..Min(1, Len(results)) |-> results[k].metadata]
    IN  IF documents = <<>>
        THEN HttpOk([context |-> <<"No relevant context found in knowledge base.">>,
                     separator |-> "\n\n",
                     sources |-> <<>>,
                     message |-> <<"No documents found">>])
        ELSE HttpOk([context |-> ContextParts(documents, metadatas),
                     separator |-> "\n\n",
                     sources |-> metadatas,
                     message |-> <<"Retrieved ", Len(documents), " relevant documents">>])

\* lines 32-57: the response built from the store's result
QueryResponse(results) ==
    LET documents == [k \in 1..Len(results) |-> results[k].document]
        metadatas == [k \in 1..Len(results) |-> results[k].metadata]
    IN  IF documents = <<>>
        THEN HttpOk([context |-> <<"No relevant context found in knowledge base.">>,
                     separator |-> "\n\n",
                     sources |-> <<>>,
                     message |-> <<"No documents found">>])
        ELSE HttpOk([context |-> ContextParts(documents, metadatas),
                     separator |-> "\n\n",
                     sources |-> metadatas,
                     message |-> <<"Retrieved ", Len(documents), " relevant documents">>])

\* lines 15-24 up to the first await: strip, the empty check, and the dispatch
\* of the embedding request; the HTTPException of line 19 is raised inside the
\* try block and reaches the except clause of line 59
QueryStartWith(q) ==
    /\ qpc = "idle"
    /\ query' = q
    /\ IF Strip(q) = <<>>
       THEN /\ qres' = QueryErrorResponse(EmptyQueryError)
            /\ qpc' = "done"
            /\ UNCHANGED provider_calls
       ELSE /\ qpc' = "embed_thread"
            /\ provider_calls' = provider_calls + 1
            /\ UNCHANGED qres
    /\ UNCHANGED <<chunkVars, gatewayVars, historyVars, taskVars, ingestVars, backendVars>>

\* a request with any query text
QueryStart == \E q \in Queries : QueryStartWith(q)

\* lines 24-30: the embedding returned, chromadb_service.query is called
QueryEmbedReturned ==
    /\ qpc = "embed_thread"
    /\ \E env \in EnvsNow : QueryCall(QueryTask, N_RESULTS, env)
    /\ qpc' = "search"
    /\ UNCHANGED <<query, qres, chunkVars, ingestVars, backendVars, provider_calls>>

\* generate_embedding, lines 44-46, and the handler's lines 59-61
QueryEmbedFailed ==
    /\ qpc = "embed_thread"
    /\ qres' = QueryErrorResponse(ProviderError)
    /\ qpc' = "done"
    /\ UNCHANGED <<query, provider_calls>>
    /\ UNCHANGED <<chunkVars, gatewayVars, historyVars, taskVars, ingestVars, backendVars>>

\* chromadb_service.query goes on in the request's task
QuerySearchReturned ==
    /\ qpc = "search"
    /\ QueryReturned(QueryTask)
    /\ UNCHANGED routeVars

QuerySearchFailed ==
    /\ qpc = "search"
    /\ QueryFailed(QueryTask)
    /\ UNCHANGED routeVars

\* lines 32-61: query returned or raised, the response is built
QueryRespond ==
    /\ qpc = "search"
    /\ tpc[QueryTask] = "idle"
    /\ qres' = IF tres[QueryTask].kind = "raise"
               THEN QueryErrorResponse(tres[QueryTask].value)
               ELSE QueryResponse(tres[QueryTask].value)
    /\ qpc' = "done"
    /\ UNCHANGED <<query, provider_calls>>
    /\ UNCHANGED <<chunkVars, gatewayVars, historyVars, taskVars, ingestVars, backendVars>>

\* a query request arrives before, during or after an ingestion request
QuerySpecInit == ChunkIdle /\ GatewayInit /\ TaskInit /\ IngestInit /\ QueryIdle /\ BackendIdle

QueryNext ==
    \/ QueryStart
    \/ QueryEmbedReturned
    \/ QueryEmbedFailed
    \/ QuerySearchReturned
    \/ QuerySearchFailed
    \/ QueryRespond
    \/ IngestCall
    \/ IngestEmbedReturned
    \/ IngestEmbedFailed
    \/ IngestBatchStored
    \/ IngestBatchFailed
    \/ IngestRespond

SpecQuery == QuerySpecInit /\ [][QueryNext]_vars

-----------------------------------------------------------------------------
(* SpecRetrieve: query requests against a collection that holds records    *)
(* when the service connects to it                                          *)

\* the most records the collection holds at the start, beyond n_results
MaxExtraMatches == 1

\* the run of _initialize that connected the gateway to the remote collection
ConnectedEnv ==
    [probe |-> TRUE, http_ok |-> TRUE, remote_goc_ok |-> TRUE,
     mem_ok |-> FALSE, mem_goc_ok |-> FALSE, msg |-> ""]

\* records of the collection: stored by an ingestion (metadata of lines
\* 88-95), or written by another client without a source
HeldRecord(k, doc, has_source) ==
    [id        |-> <<"held", k>>,
     embedding |-> Vec(doc),
     document  |-> doc,
     metadata  |-> IF has_source
                   THEN [source |-> "file.txt", chunk_id |-> k - 1, chunk_index |-> k - 1]
                   ELSE [chunk_id |-> k - 1, chunk_index |-> k - 1]]

HeldDocuments == {<<"text a">>, <<"text b">>}

\* what the collection may hold: up to two records of any kind, or more
\* records than one query returns
HeldCollections ==
    {<<>>}
    \cup {<<HeldRecord(1, d, s)>> : d \in HeldDocuments, s \in BOOLEAN}
    \cup {<<HeldRecord(1, d1, s1), HeldRecord(2, d2, s2)>> :
             d1 \in HeldDocuments, s1 \in BOOLEAN,
             d2 \in HeldDocuments, s2 \in BOOLEAN}
    \cup {[k \in 1..(N_RESULTS + x) |-> HeldRecord(k, <<"text", k>>, k % 2 = 1)] :
             x \in 0..MaxExtraMatches}

RetrieveSpecInit ==
    /\ ChunkIdle /\ TaskInit /\ IngestIdle /\ QueryIdle /\ BackendIdle
    /\ client = "http"
    /\ collection = "http"
    /\ _initialized = TRUE
    /\ _initialization_error = None
    /\ store \in HeldCollections
    /\ init_runs = 1
    /\ init_tasks = {}
    /\ last_init = [env |-> ConnectedEnv, http |-> 1, goc |-> 1, raised |-> None]
    /\ loop_calls = LoopCalls("is_available",
                              [ran |-> TRUE, http |-> 1, goc |-> 1], ConnectedEnv)

RetrieveNext ==
    \/ QueryStart
    \/ QueryEmbedReturned
    \/ QueryEmbedFailed
    \/ QuerySearchReturned
    \/ QuerySearchFailed
    \/ QueryRespond

SpecRetrieve == RetrieveSpecInit /\ [][RetrieveNext]_vars

-----------------------------------------------------------------------------
(* Input texts: up to MaxPieces pieces, each a word ending in a full stop  *)
(* followed by a whitespace run.                                           *)

WordLens == {3, 4, 8}
Seps     == {<<" ">>, <<"\n", " ">>}

Word(cap, n) == <<IF cap THEN "A" ELSE "a">> \o Rep("a", n - 2) \o <<".">>

Pieces == {Word(cap, n) \o sep : cap \in BOOLEAN, n \in WordLens, sep \in Seps}

RECURSIVE Flatten(_)
Flatten(ps) == IF ps = <<>> THEN <<>> ELSE Head(ps) \o Flatten(Tail(ps))

Texts == {Flatten(ps) : ps \in UNION {[1..n -> Pieces] : n \in 0..MaxPieces}}

-----------------------------------------------------------------------------
(* SpecChunkIngest: chunk_text followed by the rest of the ingestion of    *)
(* its result, with the chunk size and overlap of the chunker's run        *)

\* documents.py, lines 50-72 with the chunks chunk_text returned: the empty
\* checks, and the dispatch of the first embedding batch
IngestChunked ==
    /\ cpc = "done"
    /\ ipc = "idle"
    /\ IF Strip(text) = <<>>
       THEN /\ ires' = HttpError(400, <<"Document is empty or could not be parsed">>)
            /\ ipc' = "done"
            /\ UNCHANGED <<ichunks, provider_calls, iecalls>>
       ELSE IF chunks = <<>>
       THEN /\ ires' = HttpError(400, <<"No chunks created from document">>)
            /\ ipc' = "done"
            /\ UNCHANGED <<ichunks, provider_calls, iecalls>>
       ELSE /\ ichunks' = [k \in 1..Len(chunks) |->
                              [text |-> chunks[k].text, id |-> chunks[k].id]]
            /\ ipc' = "embed_thread"
            /\ provider_calls' = provider_calls + 1
            /\ iecalls' = <<EmbedBatchRange(Len(chunks), 0)>>
            /\ UNCHANGED ires
    /\ UNCHANGED <<iembeddings, iebatch, imismatch>>
    /\ UNCHANGED <<chunkVars, gatewayVars, historyVars, taskVars, queryVars, backendVars>>

-----------------------------------------------------------------------------
(* DocumentParser.chunk_text as a state machine: one action per pass       *)
(* through the while loop.  An element of chunks is the tuple              *)
(* (chunk_text, chunk_id) of the code, as the fields text and id, with     *)
(* two history fields: the sentence list it was joined from and the rule   *)
(* that emitted it.                                                        *)

ChunkInit ==
    /\ text \in Texts
    /\ chunk_size \in 1..MaxChunkSize
    /\ overlap \in 0..(chunk_size - 1)
    /\ sentences = <<>>
    /\ chunks = <<>>
    /\ chunk_id = 0
    /\ current_chunk_sentences = <<>>
    /\ current_chunk_tokens = 0
    /\ i = 0
    /\ cpc = "start"
    /\ GatewayInit
    /\ TaskInit
    /\ IngestIdle
    /\ QueryIdle /\ BackendIdle

\* lines 125-130: normalized text is empty, return []
ChunkEmpty ==
    /\ cpc = "start"
    /\ NormalizeText(text) = <<>>
    /\ cpc' = "done"
    /\ UNCHANGED <<text, chunk_size, overlap, sentences, chunks, chunk_id,
                   current_chunk_sentences, current_chunk_tokens, i>>
    /\ UNCHANGED <<gatewayVars, historyVars, taskVars, ingestVars, queryVars, backendVars,
                   provider_calls>>

\* lines 132-140: the text fits one chunk
ChunkSingle ==
    /\ cpc = "start"
    /\ NormalizeText(text) # <<>>
    /\ EstimateTokens(NormalizeText(text)) <= chunk_size
    /\ chunks' = <<[text |-> NormalizeText(text), id |-> 0,
                    sents |-> <<NormalizeText(text)>>, by |-> "single"]>>
    /\ cpc' = "done"
    /\ UNCHANGED <<text, chunk_size, overlap, sentences, chunk_id,
                   current_chunk_sentences, current_chunk_tokens, i>>
    /\ UNCHANGED <<gatewayVars, historyVars, taskVars, ingestVars, queryVars, backendVars,
                   provider_calls>>

\* lines 142-151: split into sentences and enter the loop
ChunkSplit ==
    /\ cpc = "start"
    /\ NormalizeText(text) # <<>>
    /\ EstimateTokens(NormalizeText(text)) > chunk_size
    /\ sentences' = SplitIntoSentences(NormalizeText(text))
    /\ chunks' = <<>>
    /\ chunk_id' = 0
    /\ current_chunk_sentences' = <<>>
    /\ current_chunk_tokens' = 0
    /\ i' = 0
    /\ cpc' = "loop"
    /\ UNCHANGED <<text, chunk_size, overlap>>
    /\ UNCHANGED <<gatewayVars, historyVars, taskVars, ingestVars, queryVars, backendVars,
                   provider_calls>>

\* lines 157-186: close the running chunk, seed the next one, do not advance i
ChunkClose ==
    /\ cpc = "loop"
    /\ i < Len(sentences)
    /\ ExceedsBudget(current_chunk_tokens, EstimateTokens(sentences[i + 1]),
                     chunk_size, current_chunk_sentences)
    /\ Len(chunks) < MaxChunks
    /\ chunks' = Append(chunks, [text |-> JoinSentences(current_chunk_sentences),
                                 id |-> chunk_id,
                                 sents |-> current_chunk_sentences,
                                 by |-> "budget"])
    /\ chunk_id' = chunk_id + 1
    /\ current_chunk_sentences' = OverlapSeed(current_chunk_sentences, overlap).sentences
    /\ current_chunk_tokens' = OverlapSeed(current_chunk_sentences, overlap).tokens
    /\ UNCHANGED <<text, chunk_size, overlap, sentences, i, cpc>>
    /\ UNCHANGED <<gatewayVars, historyVars, taskVars, ingestVars, queryVars, backendVars,
                   provider_calls>>

\* lines 188-191: add the sentence to the running chunk
ChunkAppend ==
    /\ cpc = "loop"
    /\ i < Len(sentences)
    /\ ~ExceedsBudget(current_chunk_tokens, EstimateTokens(sentences[i + 1]),
                      chunk_size, current_chunk_sentences)
    /\ current_chunk_sentences' = Append(current_chunk_sentences, sentences[i + 1])
    /\ current_chunk_tokens' = current_chunk_tokens + EstimateTokens(sentences[i + 1])
    /\ i' = i + 1
    /\ UNCHANGED <<text, chunk_size, overlap, sentences, chunks, chunk_id, cpc>>
    /\ UNCHANGED <<gatewayVars, historyVars, taskVars, ingestVars, queryVars, backendVars,
                   provider_calls>>

\* a chunk_text that returns without the chunk of the sentences left over
ChunkFlushNoTail ==
    /\ cpc = "loop"
    /\ i >= Len(sentences)
    /\ cpc' = "done"
    /\ UNCHANGED <<text, chunk_size, overlap, sentences, chunks, chunk_id,
                   current_chunk_sentences, current_chunk_tokens, i>>
    /\ UNCHANGED <<gatewayVars, historyVars, taskVars, ingestVars, queryVars, backendVars,
                   provider_calls>>

\* lines 193-212: the loop is over, flush what is left and return
ChunkFlush ==
    /\ cpc = "loop"
    /\ i >= Len(sentences)
    /\ chunks' = IF current_chunk_sentences # <<>>
                 THEN Append(chunks, [text |-> JoinSentences(current_chunk_sentences),
                                      id |-> chunk_id,
                                      sents |-> current_chunk_sentences,
                                      by |-> "flush"])
                 ELSE chunks
    /\ cpc' = "done"
    /\ UNCHANGED <<text, chunk_size, overlap, sentences, chunk_id,
                   current_chunk_sentences, current_chunk_tokens, i>>
    /\ UNCHANGED <<gatewayVars, historyVars, taskVars, ingestVars, queryVars, backendVars,
                   provider_calls>>

ChunkNext ==
    \/ ChunkEmpty
    \/ ChunkSingle
    \/ ChunkSplit
    \/ ChunkClose
    \/ ChunkAppend
    \/ ChunkFlush

SpecChunk == ChunkInit /\ [][ChunkNext]_vars

-----------------------------------------------------------------------------
(* Properties of chunk_text *)

\* a suffix of sentence list a is a non-empty prefix of sentence list b
SharesRun(a, b) ==
    \E n \in 1..Len(a) :
        /\ n <= Len(b)
        /\ SubSeq(a, Len(a) - n + 1, Len(a)) = SubSeq(b, 1, n)

\* the chunk is one sentence whose own estimate exceeds the target
SingleOversized(c) ==
    Len(c.sents) = 1 /\ EstimateTokens(c.sents[1]) > chunk_size

\* C1 (as claimed): a pass of the loop that closes a chunk and seeds the next one
\* leaves the re-attempted sentence fitting the seeded chunk, so that the next
\* pass appends it and advances the sentence index.
C1_ReattemptAppends ==
    [][(cpc = "loop" /\ chunk_id' = chunk_id + 1)
         => ~ExceedsBudget(current_chunk_tokens', EstimateTokens(sentences[i + 1]),
                           chunk_size, current_chunk_sentences')]_vars

\* C2 (as claimed): with overlap > 0, every chunk closed by the token-budget rule
\* shares a non-empty run of sentences with its successor.
C2_BudgetClosedSharesRun ==
    \A k \in 1..(Len(chunks) - 1) :
        (overlap > 0 /\ chunks[k].by = "budget")
            => SharesRun(chunks[k].sents, chunks[k + 1].sents)

\* C2 (amended): with overlap > 0, every chunk closed by the token-budget rule
\* whose last sentence has an estimate of at most overlap shares a non-empty run
\* of sentences with its successor (a suffix of the one is a prefix of the other).
C2_SharesRunWhenLastFits ==
    \A k \in 1..(Len(chunks) - 1) :
        (/\ overlap > 0
         /\ chunks[k].by = "budget"
         /\ EstimateTokens(chunks[k].sents[Len(chunks[k].sents)]) <= overlap)
            => SharesRun(chunks[k].sents, chunks[k + 1].sents)

\* C2 witness: chunk_text returned, its first chunk was closed by the budget rule
\* with a last sentence that fits the overlap, and the second chunk starts with it.
C2_Witness ==
    /\ cpc = "done"
    /\ overlap > 0
    /\ Len(chunks) >= 2
    /\ chunks[1].by = "budget"
    /\ EstimateTokens(chunks[1].sents[Len(chunks[1].sents)]) <= overlap
    /\ SharesRun(chunks[1].sents, chunks[2].sents)

\* C9 (as claimed): in the multi-chunk path the estimate of every emitted chunk's
\* text is at most chunk_size, unless the chunk is a single oversized sentence.
C9_ChunkTextWithinTarget ==
    \A k \in 1..Len(chunks) :
        chunks[k].by # "single"
            => \/ EstimateTokens(chunks[k].text) <= chunk_size
               \/ SingleOversized(chunks[k])

\* C9 (amended): in the multi-chunk path the sum of the estimates of every emitted
\* chunk's sentences is at most chunk_size, unless the chunk is a single
\* oversized sentence.
C9_SentenceSumWithinTarget ==
    \A k \in 1..Len(chunks) :
        chunks[k].by # "single"
            => \/ SumTokens(chunks[k].sents) <= chunk_size
               \/ SingleOversized(chunks[k])

\* C9 witness: chunk_text returned several chunks, one of them joined from two or
\* more sentences whose estimates sum to exactly chunk_size while the estimate
\* of the joined text is larger.
C9_Witness ==
    /\ cpc = "done"
    /\ Len(chunks) >= 2
    /\ \E k \in 1..Len(chunks) :
        /\ Len(chunks[k].sents) >= 2
        /\ SumTokens(chunks[k].sents) = chunk_size
        /\ EstimateTokens(chunks[k].text) > chunk_size

-----------------------------------------------------------------------------
(* Properties of ChromaDBService *)

\* this step is task t's call of add_documents or of query
IsStoreCall(t) ==
    \/ \E n \in 0..MaxAddDocs, env \in EnvsNow : AddCall(t, CallerArgs(t, n), env)
    \/ \E env \in EnvsNow : QueryCall(t, N_RESULTS, env)

\* the suffixes of the ids of the first request on an empty store
FirstUuids(cs) == [k \in 1..Len(cs) |-> k]

\* C4 (as claimed): with several first-use callers _initialize runs at most
\* once, it is run (and with it get_or_create_collection) by at most one caller,
\* and the gateway is never both initialized and holding an error.
C4_InitializedOnce ==
    /\ init_runs <= 1
    /\ Cardinality(init_tasks) <= 1
    /\ ~(_initialized /\ _initialization_error # None)

\* C5 (as claimed): once _initialize has run, it never runs again.
C5_NeverInitializedAgain ==
    [][init_runs >= 1 => init_runs' = init_runs]_vars

\* C6 (as claimed): in the failed state every add or query call raises the very
\* error that the failed run of _initialize raised, and touches nothing.
C6_RaisesTriggeringError ==
    [][\A t \in Tasks :
         (IsTruthy(_initialization_error) /\ IsStoreCall(t))
            => /\ tres'[t] = Raised(last_init.raised[1])
               /\ store' = store]_vars

\* What the code does once an initialization failure is cached (a non-empty message m,
\* get_status "error"), the gateway stays in that state and every add or query
\* call raises RuntimeError("ChromaDB initialization failed: " + m), returns
\* to its caller at once, runs no initialization and leaves the store alone.
C6_RaisesCachedMessage ==
    [][/\ IsTruthy(_initialization_error)
            => /\ _initialization_error' = _initialization_error
               /\ ~_initialized'
               /\ store' = store
       /\ \A t \in Tasks :
            (IsTruthy(_initialization_error) /\ IsStoreCall(t))
               => /\ tres'[t] = Raised(RuntimeError(_initialization_error[1]))
                  /\ _initialization_error[1] = last_init.raised[1].msg[1]
                  /\ tpc'[t] = "idle"
                  /\ init_runs' = init_runs]_vars

\* The cached failure is observed: a task other than the one whose call failed the initialization
\* has called add or query and got the RuntimeError with the cached message.
C6_Witness ==
    \E t \in Tasks :
        /\ IsTruthy(_initialization_error)
        /\ last_init.raised # None
        /\ init_tasks # {}
        /\ t \notin init_tasks
        /\ top[t] \in {"add", "query"}
        /\ tpc[t] = "idle"
        /\ tres[t] = Raised(RuntimeError(_initialization_error[1]))

\* C7: a run of _initialize whose probe fails opens no remote client; a run
\* ends in failure (it raises and leaves the gateway uninitialized) only when
\* the in-memory fallback was tried and failed, otherwise the gateway is usable
\* and the add or query that triggered the run goes on to the store; and once
\* the gateway is initialized no add or query is stopped by _ensure_initialized.
C7_FallbackKeepsGatewayUsable ==
    [][/\ init_runs' = init_runs + 1
            => /\ ~last_init'.env.probe
                    => (last_init'.http = 0 /\ client' \in {client, "memory"})
               /\ (~last_init'.env.probe /\ last_init'.env.mem_ok
                   /\ last_init'.env.mem_goc_ok)
                    => (client' = "memory" /\ collection' = "memory")
               /\ (last_init'.env.remote_goc_ok \/ last_init'.env.mem_goc_ok)
                    => (_initialized' /\ last_init'.raised = None)
               /\ (~_initialized' \/ last_init'.raised # None)
                    => ~(last_init'.env.remote_goc_ok \/ last_init'.env.mem_goc_ok)
               /\ \A t \in Tasks :
                    (IsStoreCall(t) /\ _initialized') => tres'[t].kind # "raise"
       /\ \A t \in Tasks :
            (_initialized /\ IsStoreCall(t))
               => (tres'[t].kind # "raise" /\ init_runs' = init_runs)]_vars

\* C7 witness: the probe failed, the gateway runs on the in-memory client, and
\* an add went through to the store.
C7_Witness ==
    \E t \in Tasks :
        /\ init_runs = 1
        /\ ~last_init.env.probe
        /\ _initialized
        /\ client = "memory"
        /\ top[t] = "add"
        /\ tres[t] = Returned(None)
        /\ Len(store) >= 1

ChunkIngestNext ==
    \/ ChunkNext
    \/ IngestChunked
    \/ IngestEmbedReturned
    \/ IngestEmbedFailed
    \/ IngestBatchStored
    \/ IngestBatchFailed
    \/ IngestRespond

SpecChunkIngest == ChunkInit /\ [][ChunkIngestNext]_vars

-----------------------------------------------------------------------------
(* Ingestion: embedding counts and partial stores *)

\* the store add of the ingestion request failed in one of its batches
IngestStoreBatchFailed ==
    /\ top[IngestTask] = "add"
    /\ tpc[IngestTask] = "idle"
    /\ tres[IngestTask].kind = "raise"
    /\ tres[IngestTask].value \in StoreErrors

\* C3: if the provider answered a sub-batch with a number of vectors other
\* than the number of texts of that sub-batch, nothing of the request is
\* stored and the request ends in an error; every stored record holds the
\* vector of its own chunk
C3_MismatchStoresNothing ==
    /\ imismatch => store = <<>>
    /\ imismatch /\ ipc = "done" => ires.status # 200
    /\ \A k \in 1..Len(store) : store[k].embedding = Vec(store[k].document)

\* C10: when batch k of the store add fails (tbatch = k - 1 batches were
\* stored before it), the store holds exactly the records of the batches
\* before k, in input order, from then on, and the ingestion request answers
\* with an error
C10_PartialStoreKeptAndReported ==
    IngestStoreBatchFailed =>
        /\ store = StoredRecords(
                      [documents  |-> SubSeq(IngestArgs(ichunks, iembeddings, FirstUuids(ichunks)).documents,
                                             1, tbatch[IngestTask] * BATCH_SIZE),
                       embeddings |-> SubSeq(IngestArgs(ichunks, iembeddings, FirstUuids(ichunks)).embeddings,
                                             1, tbatch[IngestTask] * BATCH_SIZE),
                       metadatas  |-> SubSeq(IngestArgs(ichunks, iembeddings, FirstUuids(ichunks)).metadatas,
                                             1, tbatch[IngestTask] * BATCH_SIZE),
                       ids        |-> SubSeq(IngestArgs(ichunks, iembeddings, FirstUuids(ichunks)).ids,
                                             1, tbatch[IngestTask] * BATCH_SIZE)])
        /\ ipc \in {"store", "done"}
        /\ ipc = "done" =>
              /\ ires.status \in {400, 500}
              /\ ires.body = None
              /\ ires = IngestErrorResponse(tres[IngestTask].value)

\* the third batch of a store add failed after two batches were stored, and
\* the request has answered
C10_Witness ==
    /\ IngestStoreBatchFailed
    /\ tbatch[IngestTask] = 2
    /\ Len(store) = 2 * BATCH_SIZE
    /\ Len(ichunks) > 2 * BATCH_SIZE
    /\ ipc = "done"
    /\ ires.status = 500

-----------------------------------------------------------------------------
(* Queries *)

\* C8: a query that is empty after stripping is answered with status 400, and
\* the step that handles it calls neither the embedding provider nor the
\* gateway
C8_BlankQueryIsClientError ==
    [][(qpc = "idle" /\ qpc' # "idle" /\ Strip(query') = <<>>) =>
          /\ qres'.status = 400
          /\ qpc' = "done"
          /\ provider_calls' = provider_calls
          /\ UNCHANGED <<gatewayVars, historyVars, taskVars>>]_vars

\* what the code does with such a query: nothing is called, and the answer
\* is the handler's status 500
C8_BlankQueryIsServerError ==
    [][(qpc = "idle" /\ qpc' # "idle" /\ Strip(query') = <<>>) =>
          /\ qres' = QueryErrorResponse(EmptyQueryError)
          /\ qres'.status = 500
          /\ qpc' = "done"
          /\ provider_calls' = provider_calls
          /\ UNCHANGED <<gatewayVars, historyVars, taskVars>>]_vars

-----------------------------------------------------------------------------
(* Ingestion: order of the phases *)

\* C11: the gateway's add is called by an ingestion request only after the
\* last embedding sub-batch has returned and the number of vectors equals the
\* number of chunks; the store holds records only after that call, so a
\* request that ended before it (parse, chunk or embedding failure) left the
\* store as it was
C11_StoreOnlyAfterAllEmbeddings ==
    /\ top[IngestTask] = "add" =>
          /\ ipc \in {"store", "done"}
          /\ ichunks # <<>>
          /\ iebatch + 1 = EmbedNumBatches(Len(ichunks))
          /\ Len(iembeddings) = Len(ichunks)
    /\ top[IngestTask] # "add" => store = <<>>
    /\ ipc \in {"start", "embed_thread"} => top[IngestTask] = "none"

\* an embedding failure in the second sub-batch ended the request: the gateway
\* was never called and the store is empty
C11_Witness ==
    /\ ipc = "done"
    /\ ires = IngestErrorResponse(ProviderError)
    /\ iebatch = 1
    /\ Len(iembeddings) = MAX_BATCH_SIZE
    /\ top[IngestTask] = "none"
    /\ store = <<>>

-----------------------------------------------------------------------------
(* Blocking calls and the event loop *)

\* C12: no blocking external call made for add or query runs on the thread
\* of the event loop, the connection probe and the client construction of the
\* first use included
C12_NoExternalCallOnLoop ==
    \A c \in loop_calls : c.op \notin {"add", "query"}

-----------------------------------------------------------------------------
(* generate_embeddings: failure of a sub-batch *)

\* the provider call of a sub-batch raised and the request has answered
IngestEmbeddingFailed ==
    /\ ipc = "done"
    /\ ires = IngestErrorResponse(ProviderError)

\* C13: every sub-batch is requested once (the number of provider calls is
\* the index of the current sub-batch plus one); when the call of sub-batch k
\* raised, generate_embeddings raised to the handler, which answers with the
\* error: no later sub-batch was requested, and the vectors of the earlier
\* sub-batches reached neither the gateway nor the store
C13_FailedSubBatchFailsCall ==
    /\ ichunks # <<>> =>
          /\ provider_calls = iebatch + 1
          /\ provider_calls <= EmbedNumBatches(Len(ichunks))
    /\ IngestEmbeddingFailed =>
          /\ ires.status = 500
          /\ ires.body = None
          /\ top[IngestTask] = "none"
          /\ store = <<>>

\* the first of two sub-batches failed: one provider call was made, the second
\* sub-batch was never requested
C13_Witness ==
    /\ IngestEmbeddingFailed
    /\ EmbedNumBatches(Len(ichunks)) = 2
    /\ iebatch = 0
    /\ provider_calls = 1
    /\ iembeddings = <<>>

-----------------------------------------------------------------------------
(* generate_embeddings: sub-batches and the order of the result *)

\* ceil(a / b) for a >= 0, b >= 1
CeilDiv(a, b) == (a + b - 1) \div b

\* generate_embeddings has returned its list to the handler
EmbeddingsReturned ==
    /\ ipc \in {"store", "done"}
    /\ ichunks # <<>>
    /\ Len(iecalls) = iebatch + 1
    /\ iebatch + 1 = EmbedNumBatches(Len(ichunks))
    /\ ~IngestEmbeddingFailed

\* What holds of one generate_embeddings call on n >= 1 texts: the provider
\* requests are slices of at most 2048 texts that start at index 0 and follow
\* each other without gap or overlap, at most ceil(n/2048) of them; when the
\* call has returned there were exactly ceil(n/2048), the last one ended at n,
\* and if every response held one vector per text of its slice the result has
\* n entries, entry i being the vector of texts[i]
C14_SubBatchesCoverInputInOrder ==
    ichunks # <<>> =>
        /\ Len(iecalls) = provider_calls
        /\ Len(iecalls) <= CeilDiv(Len(ichunks), MAX_BATCH_SIZE)
        /\ iecalls[1].start_idx = 0
        /\ \A k \in 1..Len(iecalls) :
              /\ iecalls[k].end_idx - iecalls[k].start_idx \in 1..MAX_BATCH_SIZE
              /\ iecalls[k].end_idx <= Len(ichunks)
              /\ k > 1 => iecalls[k].start_idx = iecalls[k - 1].end_idx
        /\ EmbeddingsReturned =>
              /\ Len(iecalls) = CeilDiv(Len(ichunks), MAX_BATCH_SIZE)
              /\ iecalls[Len(iecalls)].end_idx = Len(ichunks)
              /\ ~imismatch =>
                    /\ Len(iembeddings) = Len(ichunks)
                    /\ \A k \in 1..Len(ichunks) :
                          iembeddings[k] = Vec(ChunkTexts(ichunks)[k])

\* C14: generate_embeddings on n >= 1 texts issues ceil(n/2048) requests of at
\* most 2048 texts each that cover the input in order, and the list it returns
\* has n entries, entry i being the vector of texts[i]
C14_ResultHasOneVectorPerText ==
    EmbeddingsReturned =>
        /\ Len(iecalls) = CeilDiv(Len(ichunks), MAX_BATCH_SIZE)
        /\ iecalls[1].start_idx = 0
        /\ iecalls[Len(iecalls)].end_idx = Len(ichunks)
        /\ \A k \in 1..Len(iecalls) :
              /\ iecalls[k].end_idx - iecalls[k].start_idx \in 1..MAX_BATCH_SIZE
              /\ k > 1 => iecalls[k].start_idx = iecalls[k - 1].end_idx
        /\ Len(iembeddings) = Len(ichunks)
        /\ \A k \in 1..Len(ichunks) : iembeddings[k] = Vec(ChunkTexts(ichunks)[k])

\* 2049 or more texts were embedded in two requests, 2048 texts in the first,
\* and the call returned one vector per text
C14_Witness ==
    /\ EmbeddingsReturned
    /\ ~imismatch
    /\ Len(ichunks) > MAX_BATCH_SIZE
    /\ Len(iecalls) = 2
    /\ iecalls[1] = [start_idx |-> 0, end_idx |-> MAX_BATCH_SIZE]
    /\ iecalls[2] = [start_idx |-> MAX_BATCH_SIZE, end_idx |-> Len(ichunks)]
    /\ Len(iembeddings) = Len(ichunks)

-----------------------------------------------------------------------------
(* add_documents: sub-batches and pairing *)

\* the add_documents call of the ingestion request has returned
IngestAddReturned ==
    /\ top[IngestTask] = "add"
    /\ tpc[IngestTask] = "idle"
    /\ tres[IngestTask] = Returned(None)

\* the k-th record of the input of the request's add_documents call
InputRecord(k) ==
    [id        |-> IngestArgs(ichunks, iembeddings, FirstUuids(ichunks)).ids[k],
     embedding |-> iembeddings[k],
     document  |-> ChunkTexts(ichunks)[k],
     metadata  |-> IngestArgs(ichunks, iembeddings, FirstUuids(ichunks)).metadatas[k]]

\* C15: the records the store has received from an add_documents call are
\* the first records of the input, each once, in input order, with the
\* document, embedding, metadata and id of one input position in one record;
\* a store call carries between 1 and 1000 records and follows tbatch calls
\* of 1000 records; when add_documents has returned, all n records were
\* passed, in ceil(n/1000) calls
C15_EveryRecordOnceInOrder ==
    top[IngestTask] = "add" =>
        /\ Len(store) <= Len(ichunks)
        /\ \A k \in 1..Len(store) : store[k] = InputRecord(k)
        /\ tpc[IngestTask] = "add_thread" =>
              /\ Len(store) = tbatch[IngestTask] * BATCH_SIZE
              /\ Len(AddBatch(targs[IngestTask], tbatch[IngestTask]).ids) \in 1..BATCH_SIZE
              /\ tbatch[IngestTask] < CeilDiv(Len(ichunks), BATCH_SIZE)
        /\ IngestAddReturned =>
              /\ Len(store) = Len(ichunks)
              /\ tbatch[IngestTask] + 1 = CeilDiv(Len(ichunks), BATCH_SIZE)

\* more than 2000 records were stored in three calls
C15_Witness ==
    /\ IngestAddReturned
    /\ Len(ichunks) > 2 * BATCH_SIZE
    /\ tbatch[IngestTask] = 2
    /\ Len(store) = Len(ichunks)
    /\ store[Len(store)] = InputRecord(Len(ichunks))

-----------------------------------------------------------------------------
(* Sub-batches run one after the other *)

\* C16: while a request of a generate_embeddings call is in flight it is the
\* only one of that call, and all requests issued before it have returned
\* (requests issued = responses taken + 1); while a store call of an
\* add_documents call is in flight, exactly the batches before it are in the
\* store; this with a query request running next to the ingestion
C16_OneSubBatchInFlight ==
    /\ ipc = "embed_thread" =>
          /\ Len(iecalls) = iebatch + 1
          /\ iecalls[Len(iecalls)] = EmbedBatchRange(Len(ichunks), iebatch)
    /\ ipc # "embed_thread" /\ ichunks # <<>> => Len(iecalls) \in {iebatch, iebatch + 1}
    /\ tpc[IngestTask] = "add_thread" =>
          /\ top[IngestTask] = "add"
          /\ Len(store) = tbatch[IngestTask] * BATCH_SIZE
    /\ tpc[IngestTask] # "add_thread" => targs[IngestTask] = NoArgs

\* the second store batch of the ingestion is in flight, the first one is
\* stored, and the query request has its own store call in flight
C16_Witness ==
    /\ tpc[IngestTask] = "add_thread"
    /\ tbatch[IngestTask] = 1
    /\ Len(store) = BATCH_SIZE
    /\ Len(iecalls) = 2
    /\ tpc[QueryTask] = "query_thread"

-----------------------------------------------------------------------------
(* Retrieval: the assembled context *)

\* the matches the store returned to the query request
Matches == tres[QueryTask].value

\* the query request has answered after the store returned its matches
QueryAnswered ==
    /\ qpc = "done"
    /\ top[QueryTask] = "query"
    /\ tres[QueryTask].kind = "return"

C18_NoMatchIsSuccessWithSentinel ==
    (QueryAnswered /\ Matches = <<>>) =>
        /\ qres.status = 200
        /\ qres.body # None
        /\ qres.body[1].context = <<"No relevant context found in knowledge base.">>
        /\ qres.body[1].sources = <<>>
        /\ Len(qres.body[1].sources) = 0
        /\ qres.body[1].message = <<"No documents found">>

\* a query was answered with the sentinel while no ingestion request had
\* even started
C18_Witness ==
    /\ QueryAnswered
    /\ Matches = <<>>
    /\ ipc = "start"
    /\ store = <<>>
    /\ qres.status = 200
    /\ qres.body[1].sources = <<>>

-----------------------------------------------------------------------------
(* chunk_text: a text that fits one chunk *)

\* the maximal runs of non-whitespace characters of s, in order; cur is the
\* run being read
RECURSIVE WordsOf(_, _)
WordsOf(s, cur) ==
    IF s = <<>> THEN (IF cur = <<>> THEN <<>> ELSE <<cur>>)
    ELSE IF IsSpace(Head(s))
         THEN (IF cur = <<>> THEN <<>> ELSE <<cur>>) \o WordsOf(Tail(s), <<>>)
         ELSE WordsOf(Tail(s), Append(cur, Head(s)))

RECURSIVE JoinWithSpace(_)
JoinWithSpace(ws) ==
    IF ws = <<>> THEN <<>>
    ELSE IF Len(ws) = 1 THEN ws[1]
    ELSE ws[1] \o <<" ">> \o JoinWithSpace(Tail(ws))

\* t with every whitespace run collapsed to one space and both ends trimmed
CollapsedAndTrimmed(t) == JoinWithSpace(WordsOf(t, <<>>))

\* the text of the run fits one chunk
FitsOneChunk ==
    /\ CollapsedAndTrimmed(text) # <<>>
    /\ Len(CollapsedAndTrimmed(text)) \div 4 <= chunk_size

-----------------------------------------------------------------------------
(* get_status *)

\* C20: a step in which a task gets the answer of get_status changes no
\* field of the gateway and nothing of the history of _initialize (no probe,
\* no client, no run of _initialize), in whatever state the gateway is, and
\* the answer is the status of that state
C20_GetStatusIsPureRead ==
    [][\A t \in Tasks :
         (top'[t] = "get_status" /\ (top'[t] # top[t] \/ tres'[t] # tres[t])) =>
            /\ client' = client
            /\ collection' = collection
            /\ _initialized' = _initialized
            /\ _initialization_error' = _initialization_error
            /\ store' = store
            /\ init_runs' = init_runs
            /\ init_tasks' = init_tasks
            /\ last_init' = last_init
            /\ loop_calls' = loop_calls
            /\ tres'[t].kind = "return"
            /\ tres'[t].value \in {"initialized", "uninitialized", "error"}
            /\ tres'[t].value = "initialized" <=> _initialized]_vars

\* both tasks have called get_status on the fresh gateway, which is still
\* as constructed: _initialize has not run
C20_Witness ==
    /\ \A t \in Tasks : top[t] = "get_status" /\ tres[t] = Returned("uninitialized")
    /\ init_runs = 0
    /\ ~_initialized
    /\ client = "None"
    /\ _initialization_error = None

-----------------------------------------------------------------------------
(* is_available *)

\* this step is task t's call of is_available
IsAvailabilityCheck(t) == \E env \in EnvsNow : IsAvailableCall(t, env)

\* a run of _initialize has failed and none has succeeded since
GatewayFailed == ~_initialized /\ _initialization_error # None

\* C21 (as claimed): a call of is_available returns (it never raises); it runs
\* _initialize only on a gateway that has not been initialized yet; it
\* returns True exactly when the gateway is usable after the call; and on a
\* gateway whose initialization has failed it returns False and runs no
\* initialization.
C21_IsAvailableReportsUsableState ==
    [][\A t \in Tasks :
         IsAvailabilityCheck(t) =>
            /\ tres'[t].kind = "return"
            /\ init_runs' # init_runs
                 => (~_initialized /\ _initialization_error = None)
            /\ tres'[t].value = TRUE
                 <=> (_initialized' /\ client' # "None" /\ collection' # "None")
            /\ GatewayFailed
                 => (tres'[t].value = FALSE /\ init_runs' = init_runs)]_vars

\* What the code does: is_available never raises and returns True exactly
\* when the gateway is usable after the call; it runs _initialize whenever the
\* gateway is not initialized and holds no non-empty cached message, and only
\* with a non-empty cached message does it return False without a run.
C21_IsAvailableReportsUsableStateUnlessRetried ==
    [][\A t \in Tasks :
         IsAvailabilityCheck(t) =>
            /\ tres'[t].kind = "return"
            /\ init_runs' # init_runs
                 <=> (~_initialized /\ ~IsTruthy(_initialization_error))
            /\ tres'[t].value = TRUE
                 <=> (_initialized' /\ client' # "None" /\ collection' # "None")
            /\ IsTruthy(_initialization_error)
                 => (tres'[t].value = FALSE /\ init_runs' = init_runs)]_vars

-----------------------------------------------------------------------------
(* Failures of the store after initialization *)

\* this step is the failure of task t's add or query in the store
StoreCallFailed(t) == AddBatchFailed(t) \/ QueryFailed(t)

\* C22: when collection.add or collection.query fails on the initialized
\* gateway, the caller gets the store's exception, and the flag, the client,
\* the collection and the cached error are as before; and whatever happens
\* on an initialized gateway, it stays initialized on the same client and
\* collection and _initialize is not run again.
C22_StoreFailureKeepsConnection ==
    [][/\ \A t \in Tasks :
            StoreCallFailed(t) =>
               /\ _initialized
               /\ tres'[t].kind = "raise"
               /\ tres'[t].value \in StoreErrors
               /\ tpc'[t] = "idle"
               /\ _initialized' = _initialized
               /\ client' = client
               /\ collection' = collection
               /\ _initialization_error' = _initialization_error
       /\ _initialized =>
               /\ _initialized'
               /\ client' = client
               /\ collection' = collection
               /\ _initialization_error' = _initialization_error
               /\ init_runs' = init_runs]_vars

\* an add of one task failed in the store, and the query of the other task
\* was answered from the records held, on the connection of the only run of
\* _initialize
C22_Witness ==
    \E t \in Tasks, u \in Tasks :
        /\ t # u
        /\ top[t] = "add"
        /\ tres[t].kind = "raise"
        /\ tres[t].value \in StoreErrors
        /\ top[u] = "query"
        /\ tres[u].kind = "return"
        /\ Len(tres[u].value) = 1
        /\ _initialized
        /\ client = "http"
        /\ init_runs = 1

-----------------------------------------------------------------------------
(* Validation errors of ingest_document *)

\* the uploads the handler rejects as invalid input
InvalidUploads == {"empty_text", "unsupported", "no_chunks"}

\* C23: an upload whose text is empty or whitespace only, whose file type is
\* unsupported, or for which chunk_text returns no chunk, is answered in the
\* same step with status 400 and a detail; no embedding request is made, the
\* gateway is not called and the store is as before; and a request that has
\* been answered does nothing more.
C23_InvalidUploadIsRejectedAtOnce ==
    [][/\ \A outcome \in InvalidUploads, n \in IngestChunkCounts :
            IngestCallWith(outcome, n) =>
               /\ ipc' = "done"
               /\ ires'.status = 400
               /\ ires'.detail # <<>>
               /\ ires'.body = None
               /\ provider_calls' = provider_calls
               /\ iecalls' = iecalls
               /\ store' = store
               /\ init_runs' = init_runs
               /\ top'[IngestTask] = top[IngestTask]
               /\ tpc'[IngestTask] = "idle"
       /\ ipc = "done" => (provider_calls' = provider_calls /\ store' = store
                            /\ ires' = ires /\ ipc' = "done")]_vars

\* a document without chunks has been rejected: no embedding request was made,
\* the gateway was never called and holds nothing
C23_Witness ==
    /\ ipc = "done"
    /\ ires = HttpError(400, <<"No chunks created from document">>)
    /\ provider_calls = 0
    /\ top[IngestTask] = "none"
    /\ init_runs = 0
    /\ store = <<>>

-----------------------------------------------------------------------------
(* SpecReingest: ingestion requests for the same file, one after another,  *)
(* against the same collection.                                            *)

\* the next request for the file arrives after the last one was answered
IngestAgain ==
    /\ ipc = "done"
    /\ Len(store) < MaxStore
    /\ ipc' = "start"
    /\ ichunks' = <<>>
    /\ iembeddings' = <<>>
    /\ iebatch' = 0
    /\ iecalls' = <<>>
    /\ imismatch' = FALSE
    /\ ires' = NoResponse
    /\ provider_calls' = 0
    /\ UNCHANGED <<chunkVars, gatewayVars, historyVars, taskVars, queryVars, backendVars>>

\* ingest_document up to its first await of a thread, for a short file
ReingestCall ==
    \E outcome \in UploadOutcomes, n \in 1..MaxStore : IngestCallWith(outcome, n)

ReingestNext ==
    \/ ReingestCall
    \/ IngestEmbedReturned
    \/ IngestEmbedFailed
    \/ IngestBatchStored
    \/ IngestBatchFailed
    \/ IngestRespond
    \/ IngestAgain

SpecReingest == IngestSpecInit /\ [][ReingestNext]_vars

\* the batch in flight of the request has an id that the store holds
BatchCollides ==
    /\ tpc[IngestTask] = "add_thread"
    /\ \E k \in 1..Len(AddBatch(targs[IngestTask], tbatch[IngestTask]).ids) :
         AddBatch(targs[IngestTask], tbatch[IngestTask]).ids[k] \in HeldIds(store)

\* C24 (as claimed): the ids of the stored records are pairwise distinct, a
\* stored record is never changed or removed, and an add with an id that is
\* held ends with an exception raised to the request.
C24_IdsDistinctCollisionIsError ==
    [][/\ \A j \in 1..Len(store'), k \in 1..Len(store') :
            j # k => store'[j].id # store'[k].id
       /\ Len(store') >= Len(store)
       /\ \A k \in 1..Len(store) : store'[k] = store[k]
       /\ (BatchCollides /\ tpc'[IngestTask] = "idle")
            => tres'[IngestTask].kind = "raise"]_vars

\* What the code does: the ids of the stored records are pairwise distinct
\* and a stored record is never changed or removed; an add with a held id
\* either raises, or returns with the held record kept and the new record of
\* that id left out, and the request is then answered with success.
C24_IdsDistinctNeverOverwritten ==
    [][/\ \A j \in 1..Len(store'), k \in 1..Len(store') :
            j # k => store'[j].id # store'[k].id
       /\ Len(store') >= Len(store)
       /\ \A k \in 1..Len(store) : store'[k] = store[k]
       /\ (BatchCollides /\ tpc'[IngestTask] = "idle"
           /\ tres'[IngestTask].kind # "raise")
            => Len(store') < Len(store) + Len(targs[IngestTask].ids)]_vars

-----------------------------------------------------------------------------
(* The overlap seed of chunk_text *)

\* the last m sentences of ss
Suffix(ss, m) == SubSeq(ss, Len(ss) - m + 1, Len(ss))

\* this step closes the running chunk and seeds the next one
ClosesChunk == cpc = "loop" /\ chunk_id' = chunk_id + 1

\* C25 (as claimed): the seed of the next chunk is a suffix of the closed
\* chunk's sentences whose estimates sum to at most overlap, and every longer
\* suffix of the closed chunk sums to more than overlap.
C25_SeedIsLongestFittingSuffix ==
    [][ClosesChunk =>
          /\ Len(current_chunk_sentences') <= Len(current_chunk_sentences)
          /\ current_chunk_sentences'
                = Suffix(current_chunk_sentences, Len(current_chunk_sentences'))
          /\ SumTokens(current_chunk_sentences') <= overlap
          /\ \A m \in (Len(current_chunk_sentences') + 1)..Len(current_chunk_sentences) :
                SumTokens(Suffix(current_chunk_sentences, m)) > overlap]_vars

\* C25 (amended): the seed of the next chunk is a suffix of the closed chunk's
\* sentences whose estimates sum to at most overlap; the running total of the
\* new chunk is that sum; and a longer suffix of the closed chunk sums to at
\* most overlap only when the seed's sum is already equal to overlap (the
\* longer suffix then adds sentences of estimate 0 only).
C25_SeedIsLongestUntilBudgetReached ==
    [][ClosesChunk =>
          /\ Len(current_chunk_sentences') <= Len(current_chunk_sentences)
          /\ current_chunk_sentences'
                = Suffix(current_chunk_sentences, Len(current_chunk_sentences'))
          /\ SumTokens(current_chunk_sentences') <= overlap
          /\ current_chunk_tokens' = SumTokens(current_chunk_sentences')
          /\ \A m \in (Len(current_chunk_sentences') + 1)..Len(current_chunk_sentences) :
                \/ SumTokens(Suffix(current_chunk_sentences, m)) > overlap
                \/ /\ SumTokens(current_chunk_sentences') = overlap
                   /\ SumTokens(Suffix(current_chunk_sentences, m)) = overlap]_vars

\* a chunk of several sentences has just been closed and the next chunk is
\* seeded with its last sentence: the seed fits the overlap and the suffix
\* that is one sentence longer does not
C25_Witness ==
    /\ cpc = "loop"
    /\ Len(chunks) >= 1
    /\ chunks[Len(chunks)].by = "budget"
    /\ overlap > 0
    /\ Len(current_chunk_sentences) = 1
    /\ Len(chunks[Len(chunks)].sents) >= 2
    /\ current_chunk_sentences = Suffix(chunks[Len(chunks)].sents, 1)
    /\ current_chunk_tokens = overlap
    /\ SumTokens(Suffix(chunks[Len(chunks)].sents, 2)) > overlap

-----------------------------------------------------------------------------
(* SpecEmbed: generate_embeddings called on its own with a list of texts,  *)
(* the empty list included.  The texts are ChunkTexts(ichunks), the result *)
(* of the call is tres[IngestTask].                                        *)

\* the lengths of the lists tried: empty, short, and around one and two full
\* requests
EmbedTextCounts ==
    UNION {{base + k : k \in 0..MaxExtraChunks} :
              base \in {0, 1, MAX_BATCH_SIZE, 2 * MAX_BATCH_SIZE}}

\* what Python raises at line 58 for batch_size = 0
ZeroDivisionError ==
    [type |-> "ZeroDivisionError", msg |-> <<"integer division or modulo by zero">>]

EmbedSpecInit ==
    /\ ChunkIdle /\ GatewayInit /\ TaskInit /\ QueryIdle /\ BackendIdle
    /\ ipc = "start"
    /\ ichunks \in {ChunkList(n) : n \in EmbedTextCounts}
    /\ iembeddings = <<>>
    /\ iebatch = 0
    /\ iecalls = <<>>
    /\ imismatch = FALSE
    /\ ires = NoResponse
    /\ provider_calls = 0

\* generate_embeddings, lines 50-72 up to the first await: the batch size
\* (57), the number of batches (58), which divides by the batch size, and the
\* dispatch of the first batch; an exception is logged and re-raised (82-84)
GenerateEmbeddingsCall ==
    LET total_texts == Len(ChunkTexts(ichunks)) IN
    /\ ipc = "start"
    /\ top' = [top EXCEPT ![IngestTask] = "generate_embeddings"]
    /\ IF EmbedBatchSize(total_texts) = 0
       THEN /\ ipc' = "done"
            /\ tres' = [tres EXCEPT ![IngestTask] = Raised(ZeroDivisionError)]
            /\ UNCHANGED <<provider_calls, iecalls>>
       ELSE /\ ipc' = "embed_thread"
            /\ provider_calls' = provider_calls + 1
            /\ iecalls' = <<EmbedBatchRange(total_texts, 0)>>
            /\ UNCHANGED tres
    /\ UNCHANGED <<ichunks, iembeddings, iebatch, imismatch, ires>>
    /\ UNCHANGED <<chunkVars, gatewayVars, historyVars, tpc, targs, tbatch, queryVars, backendVars>>

\* generate_embeddings, lines 69-80: the awaited batch returned; the loop
\* dispatches the next batch or the call returns all_embeddings
GenerateEmbeddingsBatchReturned ==
    /\ ipc = "embed_thread"
    /\ \E outcome \in ProviderOutcomes :
        LET batch_texts == EmbedBatchTexts(ChunkTexts(ichunks), iebatch)
            batch_embeddings == ProviderResponse(batch_texts, outcome)
            all_embeddings == iembeddings \o batch_embeddings
        IN  /\ iembeddings' = all_embeddings
            /\ imismatch' = (imismatch \/ Len(batch_embeddings) # Len(batch_texts))
            /\ IF iebatch + 1 < EmbedNumBatches(Len(ichunks))
               THEN /\ iebatch' = iebatch + 1
                    /\ provider_calls' = provider_calls + 1
                    /\ iecalls' = Append(iecalls,
                                         EmbedBatchRange(Len(ichunks), iebatch + 1))
                    /\ UNCHANGED <<ipc, tres>>
               ELSE /\ ipc' = "done"
                    /\ tres' = [tres EXCEPT ![IngestTask] = Returned(all_embeddings)]
                    /\ UNCHANGED <<iebatch, provider_calls, iecalls>>
    /\ UNCHANGED <<ichunks, ires>>
    /\ UNCHANGED <<chunkVars, gatewayVars, historyVars, tpc, top, targs, tbatch,
                   queryVars, backendVars>>

\* generate_embeddings, lines 82-84: the awaited batch raised
GenerateEmbeddingsBatchFailed ==
    /\ ipc = "embed_thread"
    /\ ipc' = "done"
    /\ tres' = [tres EXCEPT ![IngestTask] = Raised(ProviderError)]
    /\ UNCHANGED <<ichunks, iembeddings, iebatch, iecalls, imismatch, ires,
                   provider_calls>>
    /\ UNCHANGED <<chunkVars, gatewayVars, historyVars, tpc, top, targs, tbatch,
                   queryVars, backendVars>>

EmbedNext ==
    \/ GenerateEmbeddingsCall
    \/ GenerateEmbeddingsBatchReturned
    \/ GenerateEmbeddingsBatchFailed

SpecEmbed == EmbedSpecInit /\ [][EmbedNext]_vars

\* the call of generate_embeddings for the empty list has ended
EmptyListCallEnded ==
    /\ ipc = "done"
    /\ top[IngestTask] = "generate_embeddings"
    /\ ichunks = <<>>

\* C26 (as claimed): generate_embeddings called with the empty list returns
\* the empty list, a list as long as its argument, makes no request to the
\* provider and raises nothing.
C26_EmptyListReturnsEmptyList ==
    EmptyListCallEnded =>
        /\ tres[IngestTask] = Returned(<<>>)
        /\ Len(tres[IngestTask].value) = Len(ChunkTexts(ichunks))
        /\ provider_calls = 0

\* What the code does: generate_embeddings called with the empty list makes
\* no request to the provider and raises ZeroDivisionError; for a list that is
\* not empty it makes ceil(n / 2048) requests unless one of them fails.
C26_EmptyListRaisesZeroDivision ==
    /\ EmptyListCallEnded =>
        /\ tres[IngestTask] = Raised(ZeroDivisionError)
        /\ provider_calls = 0
    /\ (ipc = "done" /\ ichunks # <<>> /\ tres[IngestTask].kind = "return") =>
        provider_calls = CeilDiv(Len(ichunks), MAX_BATCH_SIZE)

-----------------------------------------------------------------------------
(* No sentence is lost by chunk_text *)

\* chunk_text has returned from its multi-chunk path
MultiChunkReturned ==
    /\ cpc = "done"
    /\ NormalizeText(text) # <<>>
    /\ EstimateTokens(NormalizeText(text)) > chunk_size

\* sentence list a ends with sentence list b
EndsWith(a, b) == Len(b) <= Len(a) /\ Suffix(a, Len(b)) = b

\* the chunks from the k-th on take up the sentences from the next-th on, in
\* order and without a gap: each chunk is some sentences of the chunk before
\* it, taken from its end, followed by one or more sentences not emitted so far
RECURSIVE TakesUpFrom(_, _)
TakesUpFrom(k, next) ==
    IF k > Len(chunks) THEN next = Len(sentences) + 1
    ELSE \E m \in 1..Len(chunks[k].sents) :
            /\ next + m - 1 <= Len(sentences)
            /\ Suffix(chunks[k].sents, m) = SubSeq(sentences, next, next + m - 1)
            /\ IF k = 1 THEN m = Len(chunks[k].sents)
               ELSE EndsWith(chunks[k - 1].sents,
                             SubSeq(chunks[k].sents, 1, Len(chunks[k].sents) - m))
            /\ TakesUpFrom(k + 1, next + m)

-----------------------------------------------------------------------------
(* get_status and the operations *)

\* the part of C28 about the statuses 'initialized' and 'error'
StatusAgreesWithOperations ==
    /\ GetStatus = "initialized" =>
          /\ _initialized /\ client # "None" /\ collection # "None"
          /\ \A t \in Tasks :
                /\ IsAvailabilityCheck(t) => tres'[t] = Returned(TRUE)
                /\ IsStoreCall(t) => (tres'[t].kind # "raise" /\ init_runs' = init_runs)
    /\ \A t \in Tasks :
          (IsAvailabilityCheck(t) /\ tres'[t] = Returned(TRUE))
             => (_initialized' /\ ~IsTruthy(_initialization_error'))
    /\ GetStatus = "error" =>
          \A t \in Tasks :
             IsStoreCall(t) =>
                /\ tres'[t] = Raised(RuntimeError(_initialization_error[1]))
                /\ init_runs' = init_runs
    /\ \A t \in Tasks :
          (IsStoreCall(t) /\ tres'[t].kind = "raise" /\ init_runs' = init_runs)
             => GetStatus = "error"

\* C28 (as claimed): the status is 'initialized' exactly when is_available
\* returns True and add and query go on to the store; it is 'error' exactly
\* when add and query raise the cached failure without running _initialize;
\* and it is 'uninitialized' only while _initialize has never been run.
C28_StatusAgreesWithOperations ==
    [][/\ StatusAgreesWithOperations
       /\ GetStatus = "uninitialized" => init_runs = 0]_vars

\* What the code does: as claimed for 'initialized' and 'error'; the status
\* is 'uninitialized' while _initialize has never been run and also after a
\* failed run whose message is the empty string, in which state add, query
\* and is_available run _initialize again.
C28_StatusAgreesExceptEmptyMessage ==
    [][/\ StatusAgreesWithOperations
       /\ GetStatus = "uninitialized" =>
             /\ init_runs = 0 \/ (~_initialized /\ _initialization_error = Some(""))
             /\ \A t \in Tasks :
                   (IsStoreCall(t) \/ IsAvailabilityCheck(t))
                      => init_runs' = init_runs + 1]_vars

-----------------------------------------------------------------------------
(* The backend's rag_knowledge function call: execute_rag_function        *)
(* (routes/rag_function.py) for the REST endpoint and websocket_events     *)
(* (routes/events.py) for the events WebSocket, both through               *)
(* RAGClient.query (services/rag_client.py) to the RAG service's           *)
(* process_query.                                                          *)

\* a key the result does not have
Absent == "absent"

\* the answer to a function call: FunctionCallResult of the REST endpoint
\* (rag_function.py lines 18-24, with its defaults) or the "result" dict of
\* the function_call_result message (events.py); rag_result is what
\* RAGClient.query returned, None if it was not called
FunctionResult(channel, success, context, sources, message, error, rag_result) ==
    [kind |-> "result", channel |-> channel, success |-> success,
     context |-> context, sources |-> sources,
     message |-> message, error |-> error, rag_result |-> rag_result]

\* rag_client.py lines 16-40: the parsed body of a 2xx response; None for an
\* error status (raise_for_status), a timeout or any other exception
RagClientResult(response) ==
    IF response.status = 200 THEN response.body ELSE None

\* rag_function.py lines 66-93 and events.py lines 89-119: the answer built
\* from what RAGClient.query returned; rag_result.get("context") is true of a
\* context string that is not empty
RagAnswer(channel, rag_result) ==
    IF rag_result # None /\ rag_result[1].context # <<>>
    THEN FunctionResult(channel, TRUE, rag_result[1].context, rag_result[1].sources,
                        IF channel = "rest" THEN "" ELSE Absent,
                        IF channel = "rest" THEN "" ELSE Absent, rag_result)
    ELSE FunctionResult(channel, TRUE, <<>>, <<>>,
                        "No relevant information found in knowledge base",
                        IF channel = "rest" THEN "" ELSE Absent, rag_result)

\* rag_function.py lines 51-64 and 95-110, events.py lines 74-87 and 121-142:
\* the function call arrives; an unknown function and a missing or empty
\* query are answered at once, otherwise the query is posted to the RAG
\* service
FunctionCall ==
    /\ fpc = "idle"
    /\ \E channel \in {"rest", "events"},
          function_name \in {"rag_knowledge", "other_function"},
          q \in Queries :
        /\ freq' = Some([channel |-> channel, function_name |-> function_name,
                         query |-> q])
        /\ IF function_name # "rag_knowledge"
           THEN /\ fpc' = "done"
                /\ fres' = IF channel = "rest"
                           THEN Some([kind |-> "http_error", channel |-> channel, success |-> FALSE,
                                 context |-> Absent, sources |-> Absent,
                                 message |-> Absent,
                                 error |-> <<"Unknown function: ", function_name>>,
                                 rag_result |-> None])
                           ELSE Some(FunctionResult(channel, FALSE, Absent, Absent,
                                        Absent,
                                        <<"Unknown function: ", function_name>>, None))
           ELSE IF q = <<>>
           THEN /\ fpc' = "done"
                /\ fres' = Some(FunctionResult(channel, FALSE,
                                   IF channel = "rest" THEN <<>> ELSE Absent,
                                   IF channel = "rest" THEN <<>> ELSE Absent,
                                   IF channel = "rest" THEN "" ELSE Absent,
                                   <<"Query parameter is required">>, None))
           ELSE /\ fpc' = "rag_wait"
                /\ UNCHANGED fres
    /\ UNCHANGED <<chunkVars, gatewayVars, historyVars, taskVars, ingestVars,
                   queryVars, signalingVars, provider_calls>>

\* the posted request reaches process_query
RagRequestArrives ==
    /\ fpc = "rag_wait"
    /\ QueryStartWith(freq[1].query)

\* rag_client.py lines 21-30: the response of the RAG service has arrived and
\* the handler goes on with it
RagResponded ==
    /\ fpc = "rag_wait"
    /\ qpc = "done"
    /\ fpc' = "done"
    /\ fres' = Some(RagAnswer(freq[1].channel, RagClientResult(qres)))
    /\ UNCHANGED <<freq, chunkVars, gatewayVars, historyVars, taskVars, ingestVars,
                   queryVars, signalingVars, provider_calls>>

\* rag_client.py lines 32-40: the request timed out or failed before a
\* response arrived; query returns None
RagUnreachable ==
    /\ fpc = "rag_wait"
    /\ qpc # "done"
    /\ fpc' = "done"
    /\ fres' = Some(RagAnswer(freq[1].channel, None))
    /\ UNCHANGED <<freq, chunkVars, gatewayVars, historyVars, taskVars, ingestVars,
                   queryVars, signalingVars, provider_calls>>

FunctionCallNext ==
    \/ FunctionCall
    \/ RagRequestArrives
    \/ QueryEmbedReturned
    \/ QueryEmbedFailed
    \/ QuerySearchReturned
    \/ QuerySearchFailed
    \/ QueryRespond
    \/ RagResponded
    \/ RagUnreachable

\* function calls against a RAG service whose collection holds records or
\* none
SpecFunctionCall == RetrieveSpecInit /\ [][FunctionCallNext]_vars

\* the RAG service found no match for the query of the function call, and
\* the backend has answered from its response
AnsweredZeroMatch ==
    /\ fpc = "done"
    /\ fres # None
    /\ fres[1].rag_result # None
    /\ qpc = "done"
    /\ qres.status = 200
    /\ tres[QueryTask] = Returned(<<>>)

\* C29 (as claimed): when the RAG service finds no match, the function call
\* is answered with success, an empty context, no sources and the message
\* 'No relevant information found in knowledge base'.
C29_ZeroMatchTakesNoContextBranch ==
    AnsweredZeroMatch =>
        /\ fres[1].kind = "result"
        /\ fres[1].success = TRUE
        /\ fres[1].context = <<>>
        /\ fres[1].sources = <<>>
        /\ fres[1].message = "No relevant information found in knowledge base"

\* What the code does: when the RAG service finds no match, the function call
\* is answered with success, the RAG service's sentence 'No relevant context
\* found in knowledge base.' as the context, no sources and no message; the
\* no-context answer is given exactly when RAGClient.query returned None (an
\* error status, a timeout, an unreachable service).
C29_ZeroMatchPassesSentinelContext ==
    /\ AnsweredZeroMatch =>
        /\ fres[1].kind = "result"
        /\ fres[1].success = TRUE
        /\ fres[1].context = <<"No relevant context found in knowledge base.">>
        /\ fres[1].sources = <<>>
        /\ fres[1].message \in {"", Absent}
    /\ (fpc = "done" /\ fres[1].kind = "result" /\ fres[1].success) =>
        (fres[1].message = "No relevant information found in knowledge base"
            <=> fres[1].rag_result = None)

-----------------------------------------------------------------------------
(* The signaling WebSocket handler websocket_signaling                     *)
(* (backend routes/websocket.py) with session_manager, openai_gateway and  *)
(* webrtc_service.                                                         *)

\* session_request messages one connection sends
MaxSessionRequests == 2

\* the handler has left its loop: by the break of end_session, or through
\* one of its two except clauses
Finished == wpc \in {"ended", "disconnected", "failed"}

\* webrtc.py lines 128-133, close_peer_connection: the connection the
\* session holds is closed and forgotten
ClosedPeerConnection(id) == [peer_connection EXCEPT ![id] = "None"]

OpenAfterClose(id) ==
    IF peer_connection[id] # "None" THEN [open_pcs EXCEPT ![id] = @ - 1] ELSE open_pcs

\* websocket.py line 14: the connection is accepted
WsAccept ==
    /\ wpc = "idle"
    /\ wpc' = "loop"
    /\ UNCHANGED <<wsession, wstatus, wcreated, wreqs, sessions, openai_sessions,
                   peer_connection, open_pcs>>
    /\ UNCHANGED <<chunkVars, gatewayVars, historyVars, taskVars, ingestVars,
                   queryVars, functionVars, provider_calls>>

\* lines 28-106: a session_request with or without a session id; the session
\* is looked up or created, the OpenAI session and the peer connection are
\* created and the offer is sent; create_session raises, create_offer raises
\* or the client is gone when the offer is sent, and the loop is left for an
\* except clause
WsSessionRequest ==
    /\ wpc = "loop"
    /\ wreqs < MaxSessionRequests
    /\ \E given \in {None} \cup {Some(s) : s \in SessionIds},
          outcome \in {"offer_sent", "openai_error", "offer_error", "send_disconnect"},
          id \in SessionIds :
        /\ IF given = None
           THEN id \notin (sessions \cup openai_sessions \cup wcreated)
           ELSE id = given[1]
        /\ wreqs' = wreqs + 1
        /\ sessions' = sessions \cup {id}
        /\ wcreated' = IF id \in sessions THEN wcreated ELSE wcreated \cup {id}
        /\ wsession' = Some(id)
        /\ wstatus' = [wstatus EXCEPT ![id] = "connecting"]
        /\ IF outcome = "openai_error"
           THEN /\ wpc' = "except_error"
                /\ UNCHANGED <<openai_sessions, peer_connection, open_pcs>>
           ELSE /\ openai_sessions' = openai_sessions \cup {id}
                /\ peer_connection' = [peer_connection EXCEPT ![id] = "pc"]
                /\ open_pcs' = [open_pcs EXCEPT ![id] = @ + 1]
                /\ wpc' = CASE outcome = "offer_sent" -> "loop"
                            [] outcome = "offer_error" -> "except_error"
                            [] OTHER -> "except_disconnect"
    /\ UNCHANGED <<chunkVars, gatewayVars, historyVars, taskVars, ingestVars,
                   queryVars, functionVars, provider_calls>>

\* lines 108-128: the client's answer; the remote description is set and
\* session_ready is sent, or set_remote_description raises
WsAnswer ==
    /\ wpc = "loop"
    /\ wsession # None
    /\ peer_connection[wsession[1]] # "None"
    /\ \E ok \in BOOLEAN :
        IF ok
        THEN /\ wstatus' = [wstatus EXCEPT ![wsession[1]] = "connected"]
             /\ UNCHANGED wpc
        ELSE /\ wpc' = "except_error"
             /\ UNCHANGED wstatus
    /\ UNCHANGED <<wsession, wcreated, wreqs, sessions, openai_sessions,
                   peer_connection, open_pcs>>
    /\ UNCHANGED <<chunkVars, gatewayVars, historyVars, taskVars, ingestVars,
                   queryVars, functionVars, provider_calls>>

\* lines 141-149: end_session; the peer connection is closed, the session is
\* removed from session_manager, session_ended is sent and the loop is left;
\* if the client is gone the send raises WebSocketDisconnect
WsEndSession ==
    /\ wpc = "loop"
    /\ wsession # None
    /\ peer_connection' = ClosedPeerConnection(wsession[1])
    /\ open_pcs' = OpenAfterClose(wsession[1])
    /\ wstatus' = [wstatus EXCEPT ![wsession[1]] = "idle"]
    /\ sessions' = sessions \ {wsession[1]}
    /\ \E sent \in BOOLEAN :
        wpc' = IF sent THEN "ended" ELSE "except_disconnect"
    /\ UNCHANGED <<wsession, wcreated, wreqs, openai_sessions>>
    /\ UNCHANGED <<chunkVars, gatewayVars, historyVars, taskVars, ingestVars,
                   queryVars, functionVars, provider_calls>>

\* line 22: receive_json raises WebSocketDisconnect, the client has gone
WsDisconnect ==
    /\ wpc = "loop"
    /\ wpc' = "except_disconnect"
    /\ UNCHANGED <<wsession, wstatus, wcreated, wreqs, sessions, openai_sessions,
                   peer_connection, open_pcs>>
    /\ UNCHANGED <<chunkVars, gatewayVars, historyVars, taskVars, ingestVars,
                   queryVars, functionVars, provider_calls>>

\* lines 151-163, the two except clauses, with close_session of
\* openai_gateway.py lines 189-203 (an exception of openai_session.close() is
\* logged and the entry stays) and remove_session of session_manager.py
\* lines 21-24
WsExcept ==
    /\ wpc \in {"except_disconnect", "except_error"}
    /\ wpc' = IF wpc = "except_disconnect" THEN "disconnected" ELSE "failed"
    /\ IF wsession = None
       THEN UNCHANGED <<wstatus, sessions, openai_sessions, peer_connection, open_pcs>>
       ELSE /\ peer_connection' = ClosedPeerConnection(wsession[1])
            /\ open_pcs' = OpenAfterClose(wsession[1])
            /\ wstatus' = [wstatus EXCEPT ![wsession[1]] = "idle"]
            /\ \E closing \in {"closed", "close_raises"} :
                openai_sessions' =
                    IF wsession[1] \in openai_sessions /\ closing = "closed"
                    THEN openai_sessions \ {wsession[1]}
                    ELSE openai_sessions
            /\ sessions' = sessions \ {wsession[1]}
    /\ UNCHANGED <<wsession, wcreated, wreqs>>
    /\ UNCHANGED <<chunkVars, gatewayVars, historyVars, taskVars, ingestVars,
                   queryVars, functionVars, provider_calls>>

SignalingNext ==
    \/ WsAccept
    \/ WsSessionRequest
    \/ WsAnswer
    \/ WsEndSession
    \/ WsDisconnect
    \/ WsExcept

\* one signaling connection against a backend without sessions
SpecSignaling == RetrieveSpecInit /\ [][SignalingNext]_vars

\* C30 (as claimed): whenever the signaling handler finishes, by end_session,
\* a disconnect or an error, every session it created is out of
\* session_manager.sessions and out of openai_gateway.sessions, and its peer
\* connections are closed.
C30_FinishedHandlerLeavesNothing ==
    Finished =>
        \A id \in wcreated :
            /\ id \notin sessions
            /\ id \notin openai_sessions
            /\ open_pcs[id] = 0

\* What the code does: a handler that finishes holding a session has taken
\* that session out of session_manager.sessions and closed the peer connection
\* the session holds; after end_session its entry is still in
\* openai_gateway.sessions.
C30_EndSessionKeepsOpenAIEntry ==
    /\ (Finished /\ wsession # None) =>
        /\ wsession[1] \notin sessions
        /\ peer_connection[wsession[1]] = "None"
    /\ wpc = "ended" => wsession[1] \in openai_sessions

=============================================================================
